---- MODULE Spec2Model ----
(***************************************************************************)
(* Model of the privacy-preserving robotics core:                          *)
(*   - PatternMemory   (examples/pattern_memory_demo.py)                   *)
(*   - EphemeralIdentityManager (examples/ephemeral_identity_demo.py)      *)
(*                                                                         *)
(* Number representation.  The program computes with Python floats; the    *)
(* model computes with exact real numbers:                                 *)
(*   - a rational is a pair <<n, d>> in lowest terms with d > 0;           *)
(*   - a non-negative real that the code obtains with np.sqrt (a standard  *)
(*     deviation, a z-score, a distance) is the record [sq |-> v] holding  *)
(*     its square v, so sqrt is exact and comparisons are made on squares; *)
(*   - the decayed counters (observation_count, pattern_stability) are     *)
(*     exact decimals <<whole, digits>> with base-100 fractional digits,   *)
(*     most significant first and without trailing zeros; decay_factor is  *)
(*     held in hundredths (95 stands for 0.95).                            *)
(* Where rounding decides a branch of the code (the running mean of a      *)
(* repeated sample, which the code compares with the sample itself), the   *)
(* binary64 values are followed bit-exactly next to the exact ones.        *)
(***************************************************************************)
EXTENDS Integers, Sequences, FiniteSets, TLC

(***************************************************************************)
(* Bounds of the model                                                     *)
(***************************************************************************)
\* number of observe_activity calls explored with free inputs
MaxObs == 4
\* number of observe_activity calls explored when one sample is repeated
MaxRepeat == 10
MaxDetect == 3
MaxHours == 744
MaxLongDetect == 4
MaxSameDetect == 12
MaxFineHours == 767

(***************************************************************************)
(* Exact rationals                                                         *)
(***************************************************************************)
Abs(x) == IF x < 0 THEN -x ELSE x

RECURSIVE GCD(_, _)
GCD(a, b) == IF b = 0 THEN a ELSE GCD(b, a % b)

RNorm(n, d) == LET g == GCD(Abs(n), d) IN <<n \div g, d \div g>>

R(i) == <<i, 1>>

RAdd(a, b) ==
    LET g == GCD(a[2], b[2])
    IN  RNorm(a[1] * (b[2] \div g) + b[1] * (a[2] \div g), (a[2] \div g) * b[2])

RNeg(a) == <<-a[1], a[2]>>

RSub(a, b) == RAdd(a, RNeg(b))

RMul(a, b) ==
    LET g1 == GCD(Abs(a[1]), b[2])
        g2 == GCD(Abs(b[1]), a[2])
    IN  RNorm((a[1] \div g1) * (b[1] \div g2), (a[2] \div g2) * (b[2] \div g1))

RInv(a) == IF a[1] > 0 THEN <<a[2], a[1]>> ELSE <<-a[2], -a[1]>>

RDiv(a, b) == RMul(a, RInv(b))

RSq(a) == RMul(a, a)

\* a/b < c/d for integers a, c and b, d > 0, by continued fractions (no products)
RECURSIVE FracLt(_, _, _, _)
FracLt(a, b, c, d) ==
    LET qa == a \div b
        qc == c \div d
        ra == a % b
        rc == c % d
    IN  IF qa # qc THEN qa < qc
        ELSE IF rc = 0 THEN FALSE
        ELSE IF ra = 0 THEN TRUE
        ELSE FracLt(d, rc, b, ra)

RLt(a, b) == FracLt(a[1], a[2], b[1], b[2])

RLe(a, b) == ~RLt(b, a)

RMax(a, b) == IF RLt(a, b) THEN b ELSE a

\* p hundredths as a rational
Pct(p) == RNorm(p, 100)

(***************************************************************************)
(* Square roots: the non-negative real sqrt(v) is the record [sq |-> v]    *)
(***************************************************************************)
Sqrt(v) == [sq |-> v]

Zero == Sqrt(R(0))

\* abs(a / s) for a rational a and a root s > 0
AbsQuot(a, s) == Sqrt(RDiv(RSq(a), s.sq))

\* Python's max(a, b) on two roots: b only when it is strictly greater
MaxRoot(a, b) == IF RLt(a.sq, b.sq) THEN b ELSE a

\* root > n for a natural n
RootGt(s, n) == RLt(R(n * n), s.sq)

(***************************************************************************)
(* Exact decimals with base-100 fractional digits                          *)
(***************************************************************************)
RECURSIVE Trim(_)
Trim(f) == IF f # <<>> /\ f[Len(f)] = 0 THEN Trim(SubSeq(f, 1, Len(f) - 1)) ELSE f

Dec(w, f) == <<w, Trim(f)>>

DecZero == <<0, <<>>>>

DecOne == <<1, <<>>>>

\* <<carry, digits>> of the fractional digits f times the natural k
RECURSIVE MulFrac(_, _)
MulFrac(f, k) ==
    IF f = <<>> THEN <<0, <<>>>>
    ELSE LET rest == MulFrac(Tail(f), k)
             v    == Head(f) * k + rest[1]
         IN  <<v \div 100, <<v % 100>> \o rest[2]>>

DecMulInt(x, k) == LET m == MulFrac(x[2], k) IN Dec(x[1] * k + m[1], m[2])

\* x / 100
DecShift(x) == Dec(x[1] \div 100, <<x[1] % 100>> \o x[2])

\* x * (p / 100)
DecMulPct(x, p) == DecShift(DecMulInt(x, p))

DecAddInt(x, i) == <<x[1] + i, x[2]>>

\* x < i for a natural i
DecLtInt(x, i) == x[1] < i

\* min(1.0, x)
DecMin1(x) == IF x[1] >= 1 THEN DecOne ELSE x

(***************************************************************************)
(* IEEE-754 binary64 values.  The branch conditions of the running         *)
(* statistics (diff == 0, std > 0) depend on how the moving average is     *)
(* rounded, so the running means are also computed bit-exactly: a          *)
(* non-negative double is <<N, e>>, standing for N * 2^e, with N an odd    *)
(* natural number (or 0 with e = 0) of at most 53 bits, held as a sequence *)
(* of base-2^14 limbs, least significant first, without leading zeros.     *)
(* Every operation rounds the exact result to nearest, ties to even.       *)
(* The values met are far from overflow and underflow.                     *)
(***************************************************************************)
LimbBits == 14

LimbBase == 2 ^ LimbBits

\* width of the binary64 significand
Precision == 53

RECURSIVE BigTrim(_)
BigTrim(a) == IF a # <<>> /\ a[Len(a)] = 0 THEN BigTrim(SubSeq(a, 1, Len(a) - 1)) ELSE a

BigOfInt(n) == IF n = 0 THEN <<>> ELSE <<n>>

RECURSIVE BigAddC(_, _, _)
BigAddC(a, b, c) ==
    IF a = <<>> /\ b = <<>> THEN BigOfInt(c)
    ELSE LET x == IF a = <<>> THEN 0 ELSE Head(a)
             y == IF b = <<>> THEN 0 ELSE Head(b)
             v == x + y + c
         IN  <<v % LimbBase>>
                 \o BigAddC(IF a = <<>> THEN a ELSE Tail(a),
                            IF b = <<>> THEN b ELSE Tail(b), v \div LimbBase)

BigAdd(a, b) == BigAddC(a, b, 0)

\* a - b - c for a >= b + c
RECURSIVE BigSubC(_, _, _)
BigSubC(a, b, c) ==
    IF a = <<>> THEN <<>>
    ELSE LET y == IF b = <<>> THEN 0 ELSE Head(b)
             v == Head(a) - y - c
         IN  <<v % LimbBase>>
                 \o BigSubC(Tail(a), IF b = <<>> THEN b ELSE Tail(b),
                            IF v < 0 THEN 1 ELSE 0)

BigSub(a, b) == BigTrim(BigSubC(a, b, 0))

\* a * k + c for a natural k < LimbBase
RECURSIVE BigMulSmallC(_, _, _)
BigMulSmallC(a, k, c) ==
    IF a = <<>> THEN BigOfInt(c)
    ELSE LET v == Head(a) * k + c
         IN  <<v % LimbBase>> \o BigMulSmallC(Tail(a), k, v \div LimbBase)

BigMulSmall(a, k) == BigTrim(BigMulSmallC(a, k, 0))

RECURSIVE BigMul(_, _)
BigMul(a, b) ==
    IF a = <<>> \/ b = <<>> THEN <<>>
    ELSE BigAdd(BigMulSmall(a, Head(b)),
                LET rest == BigMul(a, Tail(b))
                IN  IF rest = <<>> THEN rest ELSE <<0>> \o rest)

\* <<quotient, remainder>> of a by a natural k < LimbBase, k > 0
RECURSIVE BigDivSmallR(_, _)
BigDivSmallR(a, k) ==
    IF a = <<>> THEN <<<<>>, 0>>
    ELSE LET hi == BigDivSmallR(Tail(a), k)
             v  == hi[2] * LimbBase + Head(a)
         IN  <<<<v \div k>> \o hi[1], v % k>>

\* -1, 0, 1 as a < b, a = b, a > b
RECURSIVE BigCmp(_, _)
BigCmp(a, b) ==
    IF Len(a) # Len(b) THEN (IF Len(a) < Len(b) THEN -1 ELSE 1)
    ELSE IF a = <<>> THEN 0
    ELSE LET n == Len(a)
         IN  IF a[n] # b[n] THEN (IF a[n] < b[n] THEN -1 ELSE 1)
             ELSE BigCmp(SubSeq(a, 1, n - 1), SubSeq(b, 1, n - 1))

RECURSIVE ZeroLimbs(_)
ZeroLimbs(n) == IF n = 0 THEN <<>> ELSE <<0>> \o ZeroLimbs(n - 1)

\* a * 2^n
BigShl(a, n) ==
    IF a = <<>> THEN a
    ELSE ZeroLimbs(n \div LimbBits) \o BigMulSmall(a, 2 ^ (n % LimbBits))

\* a \div 2^r for r < LimbBits
RECURSIVE BigShrBits(_, _)
BigShrBits(a, r) ==
    IF a = <<>> THEN a
    ELSE LET up == IF Len(a) > 1 THEN a[2] % (2 ^ r) ELSE 0
         IN  <<Head(a) \div (2 ^ r) + up * (2 ^ (LimbBits - r))>> \o BigShrBits(Tail(a), r)

\* a \div 2^n
BigShr(a, n) ==
    LET k == n \div LimbBits
    IN  IF k >= Len(a) THEN <<>>
        ELSE BigTrim(BigShrBits(SubSeq(a, k + 1, Len(a)), n % LimbBits))

\* a % 2^n
BigLow(a, n) ==
    LET k == n \div LimbBits
    IN  IF k >= Len(a) THEN a
        ELSE BigTrim(SubSeq(a, 1, k) \o <<a[k + 1] % (2 ^ (n % LimbBits))>>)

RECURSIVE IntBitLen(_)
IntBitLen(x) == IF x = 0 THEN 0 ELSE 1 + IntBitLen(x \div 2)

BitLen(a) == IF a = <<>> THEN 0 ELSE LimbBits * (Len(a) - 1) + IntBitLen(a[Len(a)])

RECURSIVE IntTrailingZeros(_)
IntTrailingZeros(x) == IF x % 2 = 1 THEN 0 ELSE 1 + IntTrailingZeros(x \div 2)

\* number of trailing zero bits of a # 0
RECURSIVE TrailingZeros(_)
TrailingZeros(a) ==
    IF Head(a) = 0 THEN LimbBits + TrailingZeros(Tail(a)) ELSE IntTrailingZeros(Head(a))

BigIsOdd(a) == a # <<>> /\ Head(a) % 2 = 1

FZero == <<<<>>, 0>>

\* the representation of N * 2^e for N of at most 53 bits
FCanon(N, e) ==
    IF N = <<>> THEN FZero
    ELSE LET tz == TrailingZeros(N) IN <<BigShr(N, tz), e + tz>>

\* N * 2^e rounded to 53 bits, to nearest, ties to even
FRound(N, e) ==
    LET len == BitLen(N)
    IN  IF len <= Precision THEN FCanon(N, e)
        ELSE LET s    == len - Precision
                 q    == BigShr(N, s)
                 c    == BigCmp(BigLow(N, s), BigShl(<<1>>, s - 1))
                 up   == c = 1 \/ (c = 0 /\ BigIsOdd(q))
             IN  FCanon(IF up THEN BigAdd(q, <<1>>) ELSE q, e + s)

FMul(a, b) == FRound(BigMul(a[1], b[1]), a[2] + b[2])

FAdd(a, b) ==
    LET e == IF a[2] < b[2] THEN a[2] ELSE b[2]
    IN  FRound(BigAdd(BigShl(a[1], a[2] - e), BigShl(b[1], b[2] - e)), e)

\* a - b for a >= b
FSub(a, b) ==
    LET e == IF a[2] < b[2] THEN a[2] ELSE b[2]
    IN  FRound(BigSub(BigShl(a[1], a[2] - e), BigShl(b[1], b[2] - e)), e)

\* the double nearest to the rational n/d, for 0 <= n < LimbBase and
\* 0 < d < LimbBase: 70 quotient bits and a sticky bit for the remainder
FOfRat(r) ==
    LET qr == BigDivSmallR(BigShl(BigOfInt(r[1]), 5 * LimbBits), r[2])
        q  == BigTrim(qr[1])
    IN  FRound(BigAdd(BigShl(q, 1), BigOfInt(IF qr[2] = 0 THEN 0 ELSE 1)),
               -(5 * LimbBits) - 1)

(***************************************************************************)
(* Inputs explored                                                         *)
(***************************************************************************)
ActivityTypes == {"breakfast", "reading"}

\* decay_factor values, in hundredths
DecayFactors == {50, 95}

\* observe_activity arguments (hour, duration_minutes, zone, movement_speed);
\* the last three are outside the documented ranges
SampleA == [hour |-> R(7), duration |-> R(25), zone |-> "kitchen", speed |-> RNorm(6, 5)]
SampleB == [hour |-> R(12), duration |-> R(25), zone |-> "kitchen", speed |-> RNorm(6, 5)]
SampleC == [hour |-> R(8), duration |-> R(30), zone |-> "living_room", speed |-> R(0)]
BadHour == [hour |-> R(25), duration |-> R(25), zone |-> "kitchen", speed |-> R(1)]
BadDuration == [hour |-> R(7), duration |-> R(-5), zone |-> "kitchen", speed |-> R(1)]
BadSpeed == [hour |-> R(7), duration |-> R(25), zone |-> "kitchen", speed |-> R(-1)]

ValidSamples == {SampleA, SampleB, SampleC}

Samples == ValidSamples \cup {BadHour, BadDuration, BadSpeed}

\* the (activity_type, sample) pairs observe_activity is called with
ObserveInputs == {<<"breakfast", s>> : s \in Samples} \cup {<<"reading", SampleC>>}

\* the (current_hour, current_duration) pairs detect_anomaly is called with
Queries == {<<R(14), R(25)>>, <<R(12), R(25)>>, <<R(7), R(40)>>}

\* the (activity_type, query) pairs detect_anomaly is called with
QueryInputs == {<<"breakfast", q>> : q \in Queries} \cup {<<"reading", <<R(7), R(40)>>>>}

(***************************************************************************)
(* State                                                                   *)
(***************************************************************************)
VARIABLES
    patterns,            \* PatternMemory.patterns: activity type -> pattern
    decay_factor,        \* PatternMemory.decay_factor, in hundredths
    total_observations,  \* PatternMemory.total_observations
    last,                \* the last call made and what it returned
    calls,               \* history: number of observe_activity calls so far
    hist,                \* history: per pattern, its state after the last
                         \* observe_activity of its own type and the number
                         \* of observe_activity calls made since
    script,              \* the (activity_type, sample) pair a caller repeats,
                         \* or NoScript when the inputs are free
    ieee,                \* per pattern, the binary64 value of the running
                         \* means and whether each standard deviation is 0.0
                         \* (followed when a sample is repeated)
    threads,             \* per thread running observe_activity, its
                         \* arguments, its position in the method and its
                         \* local variables
    objects,             \* the ActivityPattern objects constructed so far,
                         \* and the dictionary self.patterns as references
                         \* to them (followed when threads are running)
    monitor,             \* the fields of the EldercareMonitor
    entities,            \* EphemeralIdentityManager.entities: the entries
                         \* [key, profile] in insertion order
    records,             \* the BehavioralFeatures objects callers have
                         \* constructed; a profile's typical_features is a
                         \* reference (an index) into this sequence
    similarity_threshold,
    expiry_days,
    now,                 \* datetime.now(), in hours since construction
    ids_generated,       \* number of generate_entity_id calls so far
    matched              \* history: per stored entity id, the number of
                         \* detect_entity calls that returned it with
                         \* is_new = False

memvars ==
    <<patterns, decay_factor, total_observations, hist, script, ieee, threads, objects,
      monitor>>

regvars ==
    <<entities, records, similarity_threshold, expiry_days, now, ids_generated, matched>>

vars == <<patterns, decay_factor, total_observations, last, calls, hist, script, ieee,
          threads, objects, monitor, entities, records, similarity_threshold, expiry_days, now, ids_generated,
          matched>>

\* EphemeralIdentityManager() with its default arguments, never called
RegistryIdle ==
    /\ entities = <<>>
    /\ records = <<>>
    /\ similarity_threshold = RNorm(17, 20)
    /\ expiry_days = 30
    /\ now = 0
    /\ ids_generated = 0
    /\ matched = <<>>

NoScript == <<>>

\* no thread is running observe_activity
NoThreads == <<>>

\* no ActivityPattern constructed, self.patterns == {}
NoObjects == [store |-> <<>>, ref |-> <<>>, order |-> <<>>]

\* no EldercareMonitor constructed
NoMonitor == <<>>

NoCall == [op |-> "none"]

(***************************************************************************)
(* PatternMemory                                                           *)
(***************************************************************************)
\* learning rate of the moving averages
Alpha == RNorm(1, 5)

\* ActivityPattern(activity_type): the dataclass defaults of TemporalPattern
\* and SpatialPattern (fields the program never writes are left out)
NewPattern ==
    [ observation_count     |-> DecZero,
      active_hours_mean     |-> R(12),
      active_hours_std      |-> Sqrt(R(16)),
      typical_duration_mean |-> R(0),
      typical_duration_std  |-> Zero,
      pattern_stability     |-> DecZero,
      zone_frequencies      |-> <<>>,
      movement_speed_mean   |-> R(0),
      movement_speed_std    |-> Zero ]

\* alpha * x + (1 - alpha) * mean
EmaMean(mean, x) == RAdd(RMul(Alpha, x), RMul(RSub(R(1), Alpha), mean))

\* np.sqrt(alpha * (x - old_mean) ** 2 + (1 - alpha) * std ** 2)
EmaStd(std, old_mean, x) ==
    Sqrt(RAdd(RMul(Alpha, RSq(RSub(x, old_mean))), RMul(RSub(R(1), Alpha), std.sq)))

\* mutation: the first-sample test made against the count before the increment
IsFirstObservationStale(count) == count = DecZero

\* temporal.observation_count == 1
IsFirstObservation(count) == count = DecOne

\* mutation: the stability is no longer capped at 1.0
StabilityUncapped(count) == DecShift(DecMulInt(count, 5))

\* min(1.0, observation_count / 20.0)
Stability(count) == DecMin1(DecShift(DecMulInt(count, 5)))

update_temporal_pattern(p, hour, duration) ==
    LET count == DecAddInt(p.observation_count, 1)
        first == IsFirstObservation(count)
    IN  [p EXCEPT
            !.observation_count = count,
            !.active_hours_mean = IF first THEN hour ELSE EmaMean(@, hour),
            !.active_hours_std =
                IF first THEN Zero ELSE EmaStd(@, p.active_hours_mean, hour),
            !.typical_duration_mean = IF first THEN duration ELSE EmaMean(@, duration),
            !.typical_duration_std =
                IF first THEN Zero ELSE EmaStd(@, p.typical_duration_mean, duration),
            !.pattern_stability = Stability(count)]

\* sum(f.values())
RECURSIVE SumOver(_, _)
SumOver(f, S) ==
    IF S = {} THEN R(0)
    ELSE LET z == CHOOSE z \in S : TRUE IN RAdd(f[z], SumOver(f, S \ {z}))

SumValues(f) == SumOver(f, DOMAIN f)

\* mutation: a zone already present is not counted again
CountZoneOnce(freq, zone) ==
    [z \in (DOMAIN freq) \cup {zone} |-> IF z \in DOMAIN freq THEN freq[z] ELSE R(1)]

\* zone_frequencies[zone] = 1.0, or += 1.0 when present
CountZone(freq, zone) ==
    [z \in (DOMAIN freq) \cup {zone} |->
        IF z = zone
        THEN (IF zone \in DOMAIN freq THEN RAdd(freq[zone], R(1)) ELSE R(1))
        ELSE freq[z]]

\* zone_frequencies[z] /= total, for every z
Normalize(freq) ==
    LET total == SumValues(freq) IN [z \in DOMAIN freq |-> RDiv(freq[z], total)]

update_spatial_pattern(p, zone, speed) ==
    LET fresh == p.movement_speed_mean = R(0)
    IN  [p EXCEPT
            !.zone_frequencies = Normalize(CountZone(@, zone)),
            !.movement_speed_mean = IF fresh THEN speed ELSE EmaMean(@, speed),
            !.movement_speed_std =
                IF fresh THEN Zero ELSE EmaStd(@, p.movement_speed_mean, speed)]

\* mutation: the decay pass forgets observation_count
DecayPatternKeepsCount(p, d) ==
    [p EXCEPT
        !.pattern_stability = DecMulPct(@, d),
        !.zone_frequencies = [z \in DOMAIN @ |-> RMul(@[z], Pct(d))]]

\* one pattern's share of _apply_decay
DecayPattern(p, d) ==
    [p EXCEPT
        !.observation_count = DecMulPct(@, d),
        !.pattern_stability = DecMulPct(@, d),
        !.zone_frequencies = [z \in DOMAIN @ |-> RMul(@[z], Pct(d))]]

apply_decay(ps, d) == [t \in DOMAIN ps |-> DecayPattern(ps[t], d)]

\* patterns with the pattern of activity_type fetched or created
GetOrCreate(ps, activity_type) ==
    [t \in (DOMAIN ps) \cup {activity_type} |-> IF t \in DOMAIN ps THEN ps[t] ELSE NewPattern]

\* the pattern map observe_activity leaves
observe_activity(ps, d, activity_type, s) ==
    LET created  == GetOrCreate(ps, activity_type)
        temporal == update_temporal_pattern(created[activity_type], s.hour, s.duration)
        spatial  == update_spatial_pattern(temporal, s.zone, s.speed)
    IN  apply_decay([created EXCEPT ![activity_type] = spatial], d)

\* mutation: the data threshold set one observation too low
InsufficientDataBelowTwo(ps, activity_type) ==
    activity_type \notin DOMAIN ps \/ DecLtInt(ps[activity_type].observation_count, 2)

\* not pattern or pattern.temporal.observation_count < 3
InsufficientData(ps, activity_type) ==
    activity_type \notin DOMAIN ps \/ DecLtInt(ps[activity_type].observation_count, 3)

\* mutation: the anomaly threshold made inclusive
IsAnomalyInclusive(deviation) == ~RLt(deviation.sq, R(4))

\* deviation > 2.0
IsAnomaly(deviation) == RootGt(deviation, 2)

\* the (is_anomaly, deviation) pair detect_anomaly returns
detect_anomaly(ps, activity_type, current_hour, current_duration) ==
    IF InsufficientData(ps, activity_type)
    THEN [is_anomaly |-> FALSE, deviation |-> Zero]
    ELSE LET p == ps[activity_type]
             hour_zscore ==
                 IF RLt(R(0), p.active_hours_std.sq)
                 THEN AbsQuot(RSub(current_hour, p.active_hours_mean), p.active_hours_std)
                 ELSE Zero
             duration_zscore ==
                 IF RLt(R(0), p.typical_duration_std.sq)
                 THEN AbsQuot(RSub(current_duration, p.typical_duration_mean),
                              p.typical_duration_std)
                 ELSE Zero
             deviation == MaxRoot(hour_zscore, duration_zscore)
         IN  [is_anomaly |-> IsAnomaly(deviation), deviation |-> deviation]

(***************************************************************************)
(* Actions of the pattern memory                                           *)
(***************************************************************************)
\* mutation: the global counter left alone
TotalAfterObserveSkipped(n) == n

\* self.total_observations += 1
TotalAfterObserve(n) == n + 1

\* what hist records of a pattern
Snapshot(p, n) == [pattern |-> p, since |-> 0, touches |-> n]

\* observe_activity calls of this type so far
Touches(t) == IF t \in DOMAIN hist THEN hist[t].touches ELSE 0

ObserveStep(activity_type, s) ==
    /\ patterns' = observe_activity(patterns, decay_factor, activity_type, s)
    /\ total_observations' = TotalAfterObserve(total_observations)
    /\ last' = [op |-> "observe", activity_type |-> activity_type, sample |-> s,
                raised |-> FALSE]
    /\ calls' = calls + 1
    /\ hist' = [t \in DOMAIN patterns' |->
                   IF t = activity_type THEN Snapshot(patterns'[t], Touches(t) + 1)
                   ELSE [hist[t] EXCEPT !.since = @ + 1]]
    /\ UNCHANGED decay_factor

Observe ==
    /\ calls < MaxObs
    /\ \E in \in ObserveInputs : ObserveStep(in[1], in[2])
    /\ UNCHANGED <<script, ieee, threads, objects, monitor>>
    /\ UNCHANGED regvars

DetectAnomaly ==
    /\ \E in \in QueryInputs :
          last' = [op |-> "detect_anomaly", activity_type |-> in[1],
                   hour |-> in[2][1], duration |-> in[2][2],
                   result |-> detect_anomaly(patterns, in[1], in[2][1], in[2][2])]
    /\ UNCHANGED <<patterns, decay_factor, total_observations, calls, hist, script, ieee,
                   threads, objects, monitor>>
    /\ UNCHANGED regvars

Init ==
    /\ patterns = <<>>
    /\ decay_factor \in DecayFactors
    /\ total_observations = 0
    /\ last = NoCall
    /\ calls = 0
    /\ hist = <<>>
    /\ script = NoScript
    /\ ieee = <<>>
    /\ threads = NoThreads
    /\ objects = NoObjects
    /\ monitor = NoMonitor
    /\ RegistryIdle

Next == Observe \/ DetectAnomaly

Spec == Init /\ [][Next]_vars

(***************************************************************************)
(* The running means in binary64, for a caller that repeats one sample     *)
(***************************************************************************)
\* alpha = 0.2
FloatAlpha == FOfRat(Alpha)

\* (1 - alpha)
FloatOneMinusAlpha == FSub(FOfRat(R(1)), FloatAlpha)

\* alpha * x + (1 - alpha) * mean
FEmaMean(mean, x) == FAdd(FMul(FloatAlpha, x), FMul(FloatOneMinusAlpha, mean))

\* np.sqrt(alpha * (x - old_mean) ** 2 + (1 - alpha) * std ** 2) == 0.0:
\* the sum of two non-negative terms that do not underflow
StdStaysZero(std_is_zero, old_mean, x) == std_is_zero /\ x = old_mean

\* the TemporalPattern defaults: mean hour 12.0 with std 4.0, duration 0.0 with std 0.0
NewIeee ==
    [ hours_mean       |-> FOfRat(R(12)),
      hours_std_zero   |-> FALSE,
      duration_mean    |-> FZero,
      duration_std_zero |-> TRUE ]

\* _update_temporal_pattern on the binary64 means; first is the outcome of
\* observation_count == 1
ieee_update_temporal(m, first, hour, duration) ==
    [ hours_mean       |-> IF first THEN hour ELSE FEmaMean(m.hours_mean, hour),
      hours_std_zero   |-> first \/ StdStaysZero(m.hours_std_zero, m.hours_mean, hour),
      duration_mean    |-> IF first THEN duration ELSE FEmaMean(m.duration_mean, duration),
      duration_std_zero |->
          first \/ StdStaysZero(m.duration_std_zero, m.duration_mean, duration) ]

\* observe_activity on the binary64 means (the decay pass leaves them alone)
ieee_observe(ms, ps, activity_type, s) ==
    LET old   == IF activity_type \in DOMAIN ms THEN ms[activity_type] ELSE NewIeee
        count == IF activity_type \in DOMAIN ps
                 THEN ps[activity_type].observation_count ELSE DecZero
        first == IsFirstObservation(DecAddInt(count, 1))
    IN  [t \in (DOMAIN ms) \cup {activity_type} |->
            IF t = activity_type
            THEN ieee_update_temporal(old, first, FOfRat(s.hour), FOfRat(s.duration))
            ELSE ms[t]]

\* mutation: the z-score no longer skips a dimension whose std is 0
ZScorePositiveUnguarded(std_is_zero, mean, x) == x # mean

\* abs((x - mean) / std) > 0, taken as 0.0 when std == 0
ZScorePositive(std_is_zero, mean, x) == ~std_is_zero /\ x # mean

\* whether the deviation detect_anomaly returns is 0.0 or positive
ieee_detect(ps, ms, activity_type, current_hour, current_duration) ==
    IF InsufficientData(ps, activity_type) THEN [deviation |-> "zero"]
    ELSE LET m == ms[activity_type]
         IN  IF \/ ZScorePositive(m.hours_std_zero, m.hours_mean, FOfRat(current_hour))
                \/ ZScorePositive(m.duration_std_zero, m.duration_mean,
                                  FOfRat(current_duration))
             THEN [deviation |-> "positive"]
             ELSE [deviation |-> "zero"]

\* decay_factor values of the repeated-sample runs, in hundredths
RepeatDecayFactors == {95, 98}

Sample75 == [hour |-> RNorm(15, 2), duration |-> R(25), zone |-> "kitchen", speed |-> RNorm(6, 5)]
Sample14 == [hour |-> R(14), duration |-> R(25), zone |-> "living_room", speed |-> RNorm(3, 10)]
Sample12 == [hour |-> R(12), duration |-> R(30), zone |-> "kitchen", speed |-> RNorm(6, 5)]

RepeatInputs ==
    {<<"breakfast", s>> : s \in {Sample75, Sample12, SampleC}} \cup {<<"reading", Sample14>>}

\* queries at the learned hour with a much longer duration, at the learned
\* values, and far from both
RepeatQueries(s) == {<<s.hour, R(120)>>, <<s.hour, s.duration>>, <<R(5), R(120)>>}

ObserveSame ==
    /\ calls < MaxRepeat
    /\ ObserveStep(script[1], script[2])
    /\ ieee' = ieee_observe(ieee, patterns, script[1], script[2])
    /\ UNCHANGED <<script, threads, objects, monitor>>
    /\ UNCHANGED regvars

DetectAnomalyRepeat ==
    /\ \E q \in RepeatQueries(script[2]) :
          last' = [op |-> "detect_anomaly", activity_type |-> script[1],
                   hour |-> q[1], duration |-> q[2],
                   result |-> detect_anomaly(patterns, script[1], q[1], q[2]),
                   ieee |-> ieee_detect(patterns, ieee, script[1], q[1], q[2])]
    /\ UNCHANGED <<patterns, decay_factor, total_observations, calls, hist, script, ieee,
                   threads, objects, monitor>>
    /\ UNCHANGED regvars

InitRepeat ==
    /\ patterns = <<>>
    /\ decay_factor \in RepeatDecayFactors
    /\ total_observations = 0
    /\ last = NoCall
    /\ calls = 0
    /\ hist = <<>>
    /\ script \in RepeatInputs
    /\ ieee = <<>>
    /\ threads = NoThreads
    /\ objects = NoObjects
    /\ monitor = NoMonitor
    /\ RegistryIdle

NextRepeat == ObserveSame \/ DetectAnomalyRepeat

SpecRepeat == InitRepeat /\ [][NextRepeat]_vars

(***************************************************************************)
(* EphemeralIdentityManager.  A similarity s = max(0, 1 - distance / 10)   *)
(* is the record [far_sq |-> v] holding v = min(distance, 10) ^ 2, so that *)
(* s = 1 - sqrt(v) / 10 exactly; a larger similarity has a smaller v.      *)
(* Entity ids are the numbers 1, 2, ... in the order generate_entity_id    *)
(* produced them (two random 128-bit tokens are taken never to collide);   *)
(* NoId stands for None.                                                   *)
(***************************************************************************)
NoId == 0

NoFeatures == 0

NoProfile == [entity_id |-> NoId]

HoursPerDay == 24

TimeEncoding(x) ==
    CASE x = "morning" -> 0 [] x = "afternoon" -> 1 [] x = "evening" -> 2
      [] x = "night" -> 3 [] OTHER -> 0

ZoneEncoding(x) ==
    CASE x = "kitchen" -> 0 [] x = "living_room" -> 1 [] x = "bedroom" -> 2
      [] x = "bathroom" -> 3 [] OTHER -> 0

PatternEncoding(x) ==
    CASE x = "steady" -> 0 [] x = "variable" -> 1 [] x = "stationary" -> 2
      [] OTHER -> 0

to_vector(f) ==
    << f.movement_speed,
       f.height_estimate,
       R(TimeEncoding(f.activity_time)),
       R(ZoneEncoding(f.interaction_zone)),
       R(PatternEncoding(f.movement_pattern)) >>

Weights == <<R(2), R(2), R(1), R(1), R(1)>>

MaxDistance == R(10)

\* np.linalg.norm((vec1 - vec2) * weights), squared
DistanceSq(vec1, vec2) ==
    LET term(i) == RSq(RMul(RSub(vec1[i], vec2[i]), Weights[i]))
    IN  RAdd(RAdd(RAdd(RAdd(term(1), term(2)), term(3)), term(4)), term(5))

\* mutation: the similarity is not cut off at 0
calculate_similarity_unclamped(features1, features2) ==
    [far_sq |-> DistanceSq(to_vector(features1), to_vector(features2))]

calculate_similarity(features1, features2) ==
    LET d == DistanceSq(to_vector(features1), to_vector(features2))
    IN  [far_sq |-> IF RLt(d, RSq(MaxDistance)) THEN d ELSE RSq(MaxDistance)]

\* the similarity 0.0
SimZero == [far_sq |-> RSq(MaxDistance)]

\* similarity a > similarity b
SimGt(a, b) == RLt(a.far_sq, b.far_sq)

\* similarity a < the number t
SimLtNumber(a, t) ==
    IF RLe(t, R(0)) THEN FALSE
    ELSE IF RLt(R(1), t) THEN TRUE
    ELSE RLt(RMul(RSq(MaxDistance), RSq(RSub(R(1), t))), a.far_sq)

\* similarity a > the number t
SimGtNumber(a, t) ==
    IF RLt(t, R(0)) THEN TRUE
    ELSE IF RLe(R(1), t) THEN FALSE
    ELSE RLt(a.far_sq, RMul(RSq(MaxDistance), RSq(RSub(R(1), t))))

\* mutation: no profile ever counts as expired
is_expired_never(profile, clock, days) == FALSE

\* mutation: a profile expires once expiry_days whole days have passed
is_expired_at_limit(profile, clock, days) ==
    (clock - profile.last_seen) \div HoursPerDay >= days

\* inactivity.days > expiry_days
is_expired(profile, clock, days) ==
    (clock - profile.last_seen) \div HoursPerDay > days

\* alpha = 0.3
UpdateAlpha == RNorm(3, 10)

\* mutation: the confidence is taken from the count before the increment
ConfidenceOfPrevious(count) ==
    IF count - 1 >= 10 THEN R(1) ELSE RNorm(count - 1, 10)

\* mutation: the confidence is not capped
ConfidenceUncapped(count) == RNorm(count, 10)

\* min(1.0, observation_count / 10.0)
Confidence(count) == IF count >= 10 THEN R(1) ELSE RNorm(count, 10)

\* EntityProfile.update: the new profile and the feature objects, the
\* profile's own typical_features object modified in place
\* mutation: update stamps first_observed as well as last_seen
update_restamps_first_observed(profile, recs, ref, clock) ==
    LET seen == [profile EXCEPT !.first_observed = clock,
                                !.last_seen = clock,
                                !.observation_count = @ + 1,
                                !.confidence = Confidence(profile.observation_count + 1)]
    IN  IF profile.typical_features = NoFeatures
        THEN [profile |-> [seen EXCEPT !.typical_features = ref], records |-> recs]
        ELSE LET current_vec == to_vector(recs[profile.typical_features])
                 new_vec     == to_vector(recs[ref])
                 updated_vec(i) == RAdd(RMul(UpdateAlpha, new_vec[i]),
                                        RMul(RSub(R(1), UpdateAlpha), current_vec[i]))
             IN  [profile |-> seen,
                  records |-> [recs EXCEPT ![profile.typical_features] =
                                  [@ EXCEPT !.movement_speed = updated_vec(1),
                                            !.height_estimate = updated_vec(2)]]]

update(profile, recs, ref, clock) ==
    LET seen == [profile EXCEPT !.last_seen = clock,
                                !.observation_count = @ + 1,
                                !.confidence = Confidence(profile.observation_count + 1)]
    IN  IF profile.typical_features = NoFeatures
        THEN [profile |-> [seen EXCEPT !.typical_features = ref], records |-> recs]
        ELSE LET current_vec == to_vector(recs[profile.typical_features])
                 new_vec     == to_vector(recs[ref])
                 updated_vec(i) == RAdd(RMul(UpdateAlpha, new_vec[i]),
                                        RMul(RSub(R(1), UpdateAlpha), current_vec[i]))
             IN  [profile |-> seen,
                  records |-> [recs EXCEPT ![profile.typical_features] =
                                  [@ EXCEPT !.movement_speed = updated_vec(1),
                                            !.height_estimate = updated_vec(2)]]]

\* mutation: an equally similar later profile replaces the best match
IsBetterMatchLastTie(similarity, best_similarity, threshold) ==
    ~SimGt(best_similarity, similarity) /\ SimGtNumber(similarity, threshold)

\* mutation: the threshold is not consulted
IsBetterMatchAnyThreshold(similarity, best_similarity, threshold) ==
    SimGt(similarity, best_similarity)

\* similarity > best_similarity and similarity > self.similarity_threshold
IsBetterMatch(similarity, best_similarity, threshold) ==
    SimGt(similarity, best_similarity) /\ SimGtNumber(similarity, threshold)

RECURSIVE MatchFrom(_, _, _, _, _, _, _, _, _)
\* the loop of find_matching_entity from entry i on
MatchFrom(es, recs, features, threshold, days, clock, i, best_match_id, best_similarity) ==
    IF i > Len(es) THEN best_match_id
    ELSE LET profile == es[i].profile
             skip == MatchFrom(es, recs, features, threshold, days, clock, i + 1,
                               best_match_id, best_similarity)
         IN  IF is_expired(profile, clock, days) THEN skip
             ELSE IF profile.typical_features = NoFeatures THEN skip
             ELSE LET similarity ==
                          calculate_similarity(features, recs[profile.typical_features])
                  IN  IF IsBetterMatch(similarity, best_similarity, threshold)
                      THEN MatchFrom(es, recs, features, threshold, days, clock, i + 1,
                                     es[i].key, similarity)
                      ELSE skip

find_matching_entity(es, recs, features, threshold, days, clock) ==
    MatchFrom(es, recs, features, threshold, days, clock, 1, NoId, SimZero)

\* mutation: every record is taken for a new entity
IsNewEntityAlways(entity_id) == TRUE

\* the else branch of "if entity_id:"
IsNewEntity(entity_id) == entity_id = NoId

\* mutation: the profile is created with the dataclass defaults
NewProfileUnobserved(fresh, clock, ref) ==
    [entity_id |-> fresh,
     first_observed |-> clock,
     last_seen |-> clock,
     observation_count |-> 0,
     typical_features |-> ref,
     confidence |-> R(0)]

\* the EntityProfile detect_entity constructs for a new entity
NewProfile(fresh, clock, ref) ==
    [entity_id |-> fresh,
     first_observed |-> clock,
     last_seen |-> clock,
     observation_count |-> 1,
     typical_features |-> ref,
     confidence |-> RNorm(1, 10)]

\* detect_entity on the feature object ref; fresh is the id generate_entity_id
\* would return
detect_entity(es, recs, ref, threshold, days, clock, fresh) ==
    LET entity_id == find_matching_entity(es, recs, recs[ref], threshold, days, clock)
    IN  IF ~IsNewEntity(entity_id)
        THEN LET i   == CHOOSE k \in 1..Len(es) : es[k].key = entity_id
                 out == update(es[i].profile, recs, ref, clock)
             IN  [entities |-> [es EXCEPT ![i].profile = out.profile],
                  records  |-> out.records,
                  result   |-> [entity_id |-> entity_id, is_new |-> FALSE]]
        ELSE [entities |-> Append(es,
                  [key |-> fresh, profile |-> NewProfile(fresh, clock, ref)]),
              records  |-> recs,
              result   |-> [entity_id |-> fresh, is_new |-> TRUE]]

\* mutation: only the first expired entry is deleted
cleanup_first_expired_only(es, days, clock) ==
    IF \A i \in 1..Len(es) : ~is_expired(es[i].profile, clock, days)
    THEN [entities |-> es, removed |-> 0]
    ELSE LET first == CHOOSE i \in 1..Len(es) :
                          /\ is_expired(es[i].profile, clock, days)
                          /\ \A j \in 1..(i - 1) : ~is_expired(es[j].profile, clock, days)
         IN  [entities |-> [k \in 1..(Len(es) - 1) |-> IF k < first THEN es[k] ELSE es[k + 1]],
              removed |-> 1]

cleanup_expired_entities(es, days, clock) ==
    LET kept == SelectSeq(es, LAMBDA e : ~is_expired(e.profile, clock, days))
    IN  [entities |-> kept, removed |-> Len(es) - Len(kept)]

get_entity_info(es, entity_id) ==
    IF \E i \in 1..Len(es) : es[i].key = entity_id
    THEN es[CHOOSE i \in 1..Len(es) : es[i].key = entity_id].profile
    ELSE NoProfile

(***************************************************************************)
(* Actions of the entity registry                                          *)
(***************************************************************************)
Features(speed, time) ==
    [ movement_speed   |-> speed,
      height_estimate  |-> RNorm(7, 4),
      activity_time    |-> time,
      interaction_zone |-> "kitchen",
      movement_pattern |-> "steady" ]

\* two records at distance 1 (similarity 0.9), a record equally far from
\* both, a record nearer the second, a record at distance 10 from the first
\* (similarity 0)
FeatureInputs ==
    { Features(R(1), "morning"),
      Features(RNorm(3, 2), "morning"),
      Features(RNorm(5, 4), "morning"),
      Features(RNorm(11, 8), "morning"),
      Features(R(6), "morning") }

SimilarityThresholds == {RNorm(-1, 10), RNorm(9, 10), RNorm(23, 25)}

ExpiryDays == {30}

\* 31 days
AdvanceHours == {744}

\* history: the detect_entity call that came immediately before this one
PreviousDetect ==
    IF last.op = "detect_entity"
    THEN [op |-> "detect_entity", ref |-> last.ref, features |-> last.features,
          result |-> last.result, before |-> last.before]
    ELSE NoCall

DetectStep(recs, ref) ==
    \E out \in {detect_entity(entities, recs, ref, similarity_threshold, expiry_days,
                               now, ids_generated + 1)} :
        /\ entities' = out.entities
        /\ records' = out.records
        /\ ids_generated' = IF out.result.is_new THEN ids_generated + 1 ELSE ids_generated
        /\ matched' = [id \in {out.entities[i].key : i \in 1..Len(out.entities)} |->
                          IF id \notin DOMAIN matched THEN 0
                          ELSE IF id = out.result.entity_id THEN matched[id] + 1
                          ELSE matched[id]]
        /\ calls' = calls + 1
        /\ last' = [op |-> "detect_entity", ref |-> ref, features |-> recs[ref],
                    result |-> out.result,
                    before |-> [entities |-> entities, records |-> recs, now |-> now],
                    prev |-> PreviousDetect]
        /\ UNCHANGED <<similarity_threshold, expiry_days, now>>
        /\ UNCHANGED memvars

\* detect_entity on a feature object the caller has just constructed
DetectEntity ==
    /\ calls < MaxDetect
    /\ \E f \in FeatureInputs : DetectStep(Append(records, f), Len(records) + 1)

\* detect_entity on the feature object the caller constructed last
DetectEntityHeld ==
    /\ calls < MaxDetect
    /\ records # <<>>
    /\ DetectStep(records, Len(records))

CleanupExpiredEntities ==
    LET out == cleanup_expired_entities(entities, expiry_days, now)
    IN  /\ entities' = out.entities
        /\ matched' = [id \in {out.entities[i].key : i \in 1..Len(out.entities)} |->
                          matched[id]]
        /\ last' = [op |-> "cleanup_expired_entities", result |-> out.removed,
                    before |-> [entities |-> entities, records |-> records, now |-> now]]
        /\ UNCHANGED <<records, similarity_threshold, expiry_days, now, ids_generated,
                       calls>>
        /\ UNCHANGED memvars

\* get_entity_info on the first id ever generated and on an id never generated
GetEntityInfo ==
    /\ \E entity_id \in {1, ids_generated + 1} :
          last' = [op |-> "get_entity_info", entity_id |-> entity_id, now |-> now,
                   result |-> get_entity_info(entities, entity_id)]
    /\ UNCHANGED <<calls>>
    /\ UNCHANGED regvars
    /\ UNCHANGED memvars

\* time passes between two calls
AdvanceClock ==
    /\ \E h \in AdvanceHours : now + h <= MaxHours /\ now' = now + h
    /\ UNCHANGED <<entities, records, similarity_threshold, expiry_days, ids_generated,
                   matched, last, calls>>
    /\ UNCHANGED memvars

\* PatternMemory() with its default argument, never called
MemoryIdle ==
    /\ patterns = <<>>
    /\ decay_factor = 95
    /\ total_observations = 0
    /\ hist = <<>>
    /\ script = NoScript
    /\ ieee = <<>>
    /\ threads = NoThreads
    /\ objects = NoObjects
    /\ monitor = NoMonitor

InitRegistry ==
    /\ entities = <<>>
    /\ records = <<>>
    /\ similarity_threshold \in SimilarityThresholds
    /\ expiry_days \in ExpiryDays
    /\ now = 0
    /\ ids_generated = 0
    /\ matched = <<>>
    /\ last = NoCall
    /\ calls = 0
    /\ MemoryIdle

NextRegistry ==
    \/ DetectEntity
    \/ DetectEntityHeld
    \/ CleanupExpiredEntities
    \/ GetEntityInfo
    \/ AdvanceClock

SpecRegistry == InitRegistry /\ [][NextRegistry]_vars

(***************************************************************************)
(* Longer runs of detect_entity on one registry, with fewer inputs and a   *)
(* clock that stands still                                                 *)
(***************************************************************************)
\* two records at distance 1, a record equally far from both, a record
\* nearer the second
LongFeatureInputs ==
    { Features(R(1), "morning"),
      Features(RNorm(3, 2), "morning"),
      Features(RNorm(5, 4), "morning"),
      Features(RNorm(11, 8), "morning") }

LongSimilarityThresholds == {RNorm(9, 10)}

DetectEntityLong ==
    /\ calls < MaxLongDetect
    /\ \E f \in LongFeatureInputs : DetectStep(Append(records, f), Len(records) + 1)

InitLong ==
    /\ entities = <<>>
    /\ records = <<>>
    /\ similarity_threshold \in LongSimilarityThresholds
    /\ expiry_days \in ExpiryDays
    /\ now = 0
    /\ ids_generated = 0
    /\ matched = <<>>
    /\ last = NoCall
    /\ calls = 0
    /\ MemoryIdle

NextLong == DetectEntityLong

SpecLong == InitLong /\ [][NextLong]_vars

(***************************************************************************)
(* One entity observed again and again: every detect_entity call passes a  *)
(* new record with the same field values                                   *)
(***************************************************************************)
SameFeatureInputs == {Features(R(1), "morning"), Features(RNorm(5, 4), "evening")}

DetectEntitySame ==
    /\ calls < MaxSameDetect
    /\ DetectStep(Append(records, script), Len(records) + 1)

InitSame ==
    /\ entities = <<>>
    /\ records = <<>>
    /\ similarity_threshold \in LongSimilarityThresholds
    /\ expiry_days \in ExpiryDays
    /\ now = 0
    /\ ids_generated = 0
    /\ matched = <<>>
    /\ last = NoCall
    /\ calls = 0
    /\ patterns = <<>>
    /\ decay_factor = 95
    /\ total_observations = 0
    /\ hist = <<>>
    /\ script \in SameFeatureInputs
    /\ ieee = <<>>
    /\ threads = NoThreads
    /\ objects = NoObjects
    /\ monitor = NoMonitor

NextSame == DetectEntitySame \/ CleanupExpiredEntities \/ AdvanceClock

SpecSame == InitSame /\ [][NextSame]_vars

(***************************************************************************)
(* One stored profile growing older hour by hour, asked whether it has     *)
(* expired                                                                 *)
(***************************************************************************)
FineExpiryDays == {1, 30}

\* profile.is_expired(self.expiry_days) on the first stored profile
IsExpired ==
    /\ last' = [op |-> "is_expired",
                elapsed |-> now - entities[1].profile.last_seen,
                result |-> is_expired(entities[1].profile, now, expiry_days)]
    /\ UNCHANGED <<calls>>
    /\ UNCHANGED regvars
    /\ UNCHANGED memvars

\* an hour passes; the answer of an earlier call is no longer on record
AdvanceHour ==
    /\ now < MaxFineHours
    /\ now' = now + 1
    /\ last' = NoCall
    /\ UNCHANGED <<entities, records, similarity_threshold, expiry_days, ids_generated,
                   matched, calls>>
    /\ UNCHANGED memvars

\* the registry after one detect_entity call at hour 0
InitExpiry ==
    /\ records = <<Features(R(1), "morning")>>
    /\ entities = <<[key |-> 1, profile |-> NewProfile(1, 0, 1)]>>
    /\ similarity_threshold \in LongSimilarityThresholds
    /\ expiry_days \in FineExpiryDays
    /\ now = 0
    /\ ids_generated = 1
    /\ matched = [id \in {1} |-> 0]
    /\ last = NoCall
    /\ calls = 1
    /\ MemoryIdle

NextExpiry == IsExpired \/ AdvanceHour

SpecExpiry == InitExpiry /\ [][NextExpiry]_vars

(***************************************************************************)
(* calculate_similarity on pairs of feature records                        *)
(***************************************************************************)
FeaturesOfAll(speed, height, time, zone, pattern) ==
    [ movement_speed   |-> speed,
      height_estimate  |-> height,
      activity_time    |-> time,
      interaction_zone |-> zone,
      movement_pattern |-> pattern ]

\* records over every field, with categories outside the encodings
PairFeatureInputs ==
    { FeaturesOfAll(R(1), RNorm(7, 4), "morning", "kitchen", "steady"),
      FeaturesOfAll(RNorm(3, 2), RNorm(7, 4), "morning", "kitchen", "steady"),
      FeaturesOfAll(R(6), RNorm(7, 4), "morning", "kitchen", "steady"),
      FeaturesOfAll(R(1), RNorm(8, 5), "afternoon", "kitchen", "steady"),
      FeaturesOfAll(R(1), RNorm(7, 4), "evening", "living_room", "variable"),
      FeaturesOfAll(R(1), RNorm(7, 4), "night", "bathroom", "stationary"),
      FeaturesOfAll(R(1), RNorm(7, 4), "dawn", "garage", "erratic"),
      FeaturesOfAll(RNorm(1, 2), R(1), "night", "bedroom", "variable"),
      FeaturesOfAll(R(0), R(0), "morning", "kitchen", "steady"),
      FeaturesOfAll(R(-1), R(7), "night", "bathroom", "stationary"),
      FeaturesOfAll(RNorm(6, 5), RNorm(7, 4), "morning", "kitchen", "steady"),
      FeaturesOfAll(RNorm(59, 50), RNorm(7, 4), "morning", "kitchen", "steady") }

CalculateSimilarity ==
    /\ \E a, b \in PairFeatureInputs :
          last' = [op |-> "calculate_similarity", a |-> a, b |-> b,
                   ab |-> calculate_similarity(a, b),
                   ba |-> calculate_similarity(b, a),
                   aa |-> calculate_similarity(a, a)]
    /\ UNCHANGED <<calls>>
    /\ UNCHANGED regvars
    /\ UNCHANGED memvars

InitPairs ==
    /\ RegistryIdle
    /\ last = NoCall
    /\ calls = 0
    /\ MemoryIdle

NextPairs == CalculateSimilarity

SpecPairs == InitPairs /\ [][NextPairs]_vars

(***************************************************************************)
(* Claims about the pattern memory                                         *)
(***************************************************************************)
\* the decay factor as a decimal
DecOfPct(p) == Dec(p \div 100, <<p % 100>>)

\* c * (p/100)^k
RECURSIVE DecTimesPow(_, _, _)
DecTimesPow(c, p, k) == IF k = 0 THEN c ELSE DecMulPct(DecTimesPow(c, p, k - 1), p)

\* an observe_activity call has just returned
JustObserved == last.op = "observe"

\* C1: after any sequence of observe calls, the zone_frequencies of every
\* stored pattern sum to 1.
C1_ZoneFrequenciesSumToOne ==
    \A t \in DOMAIN patterns : SumValues(patterns[t].zone_frequencies) = R(1)

\* C2: a pattern that k observe calls of other activity types have left
\* untouched has observation_count c * d^k, c being its count before them,
\* and the same means and standard deviations as before them.
C2_UntouchedPatternDecays ==
    \A t \in DOMAIN patterns :
        LET p == patterns[t]
            h == hist[t]
        IN  /\ p.observation_count
                 = DecTimesPow(h.pattern.observation_count, decay_factor, h.since)
            /\ p.active_hours_mean = h.pattern.active_hours_mean
            /\ p.active_hours_std = h.pattern.active_hours_std
            /\ p.typical_duration_mean = h.pattern.typical_duration_mean
            /\ p.typical_duration_std = h.pattern.typical_duration_std
            /\ p.movement_speed_mean = h.pattern.movement_speed_mean
            /\ p.movement_speed_std = h.pattern.movement_speed_std

C2_Witness ==
    \E t \in DOMAIN patterns :
        /\ hist[t].since >= 2
        /\ hist[t].touches >= 2
        /\ patterns[t].observation_count # hist[t].pattern.observation_count

C4_InsufficientDataSentinel ==
    [][last'.op = "detect_anomaly" =>
          /\ patterns' = patterns
          /\ total_observations' = total_observations
          /\ decay_factor' = decay_factor
          /\ (\/ last'.activity_type \notin DOMAIN patterns
              \/ patterns[last'.activity_type].observation_count[1] < 3)
                 => last'.result = [is_anomaly |-> FALSE, deviation |-> Zero]]_vars

\* the sentinel answered for a pattern that has spread in both dimensions
C4_Witness ==
    /\ last.op = "detect_anomaly"
    /\ last.activity_type \in DOMAIN patterns
    /\ patterns[last.activity_type].observation_count[1] = 2
    /\ patterns[last.activity_type].active_hours_std # Zero
    /\ last.hour # patterns[last.activity_type].active_hours_mean
    /\ last.result = [is_anomaly |-> FALSE, deviation |-> Zero]

\* squared z-score of x against a mean and a standard deviation > 0
ZSq(x, mean, std) == RDiv(RSq(RSub(x, mean)), std.sq)

\* C5: with observation_count >= 3 and both standard deviations > 0,
\* deviation is the larger of the two z-scores and is_anomaly is
\* deviation > 2: a query 3 standard deviations away in the deciding
\* dimension is an anomaly with deviation 3, one 2 away is none.
C5_DeviationIsMaxZScore ==
    (/\ last.op = "detect_anomaly"
     /\ last.activity_type \in DOMAIN patterns
     /\ patterns[last.activity_type].observation_count[1] >= 3
     /\ patterns[last.activity_type].active_hours_std # Zero
     /\ patterns[last.activity_type].typical_duration_std # Zero) =>
        LET p  == patterns[last.activity_type]
            zh == ZSq(last.hour, p.active_hours_mean, p.active_hours_std)
            zd == ZSq(last.duration, p.typical_duration_mean, p.typical_duration_std)
            dv == last.result.deviation.sq
        IN  /\ dv = RMax(zh, zd)
            /\ last.result.is_anomaly = RLt(R(4), dv)
            /\ (RMax(zh, zd) = R(9)) => last.result = [is_anomaly |-> TRUE, deviation |-> Sqrt(R(9))]
            /\ (RMax(zh, zd) = R(4)) => last.result = [is_anomaly |-> FALSE, deviation |-> Sqrt(R(4))]

\* a query exactly 3 standard deviations from the learned hour
C5_Witness ==
    /\ last.op = "detect_anomaly"
    /\ last.activity_type \in DOMAIN patterns
    /\ patterns[last.activity_type].active_hours_std = Sqrt(R(4))
    /\ patterns[last.activity_type].typical_duration_std # Zero
    /\ last.result = [is_anomaly |-> TRUE, deviation |-> Sqrt(R(9))]

\* a query exactly 2 standard deviations from the learned hour
C5_BoundaryReached ==
    /\ last.op = "detect_anomaly"
    /\ last.result = [is_anomaly |-> FALSE, deviation |-> Sqrt(R(4))]

\* hour outside [0, 24), negative duration or negative movement speed
InvalidInput(s) ==
    \/ RLt(s.hour, R(0))
    \/ RLe(R(24), s.hour)
    \/ RLt(s.duration, R(0))
    \/ RLt(s.speed, R(0))

\* C8: observe with an out-of-range hour, a negative duration or a negative
\* speed fails with an invalid-input error and changes neither the patterns
\* nor total_observations.
C8_InvalidInputRejected ==
    [][(last'.op = "observe" /\ calls' = calls + 1 /\ InvalidInput(last'.sample)) =>
          /\ last'.raised
          /\ patterns' = patterns
          /\ total_observations' = total_observations]_vars

\* C9: total_observations is the number of observe calls made so far.
C9_TotalCountsCalls == total_observations = calls

C9_Witness == total_observations = 3 /\ last.op = "detect_anomaly"

\* the binary64 moving average of x with itself is x again
Reproduced(x) == FEmaMean(FOfRat(x), FOfRat(x)) = FOfRat(x)

\* C6 as stated: after any number of observe calls of one type with the
\* same hour and duration, both standard deviations are 0 and
\* detect_anomaly returns deviation 0 for every query.
C6_RepeatedSampleKeepsStdZero ==
    /\ \A t \in DOMAIN ieee : ieee[t].hours_std_zero /\ ieee[t].duration_std_zero
    /\ last.op = "detect_anomaly" => last.ieee.deviation = "zero"

\* C6 amended: a dimension whose standard deviation is 0 contributes
\* nothing, so with both at 0 detect_anomaly returns (false, 0) for every
\* query; repeated observations with one hour and one duration keep both
\* at 0 when the binary64 moving average reproduces the two values.
C6_BlindSpot ==
    /\ (/\ last.op = "detect_anomaly"
        /\ last.activity_type \in DOMAIN ieee
        /\ ieee[last.activity_type].hours_std_zero
        /\ ieee[last.activity_type].duration_std_zero)
           => /\ last.ieee.deviation = "zero"
              /\ last.result = [is_anomaly |-> FALSE, deviation |-> Zero]
    /\ (Reproduced(script[2].hour) /\ Reproduced(script[2].duration))
           => \A t \in DOMAIN ieee :
                  /\ ieee[t].hours_std_zero
                  /\ ieee[t].duration_std_zero
                  /\ ieee[t].hours_mean = FOfRat(script[2].hour)
                  /\ ieee[t].duration_mean = FOfRat(script[2].duration)

\* enough observations, both standard deviations 0, a query far from both means
C6_Witness ==
    /\ last.op = "detect_anomaly"
    /\ ~InsufficientData(patterns, last.activity_type)
    /\ calls = MaxRepeat
    /\ ieee[last.activity_type].hours_std_zero
    /\ ieee[last.activity_type].duration_std_zero
    /\ last.hour # script[2].hour
    /\ last.duration # script[2].duration
    /\ last.ieee.deviation = "zero"

\* C7: after ten observe calls with one hour and one duration
\* (decay_factor 0.98), a query at the learned hour with a much longer
\* duration returns a deviation greater than 0.
C7_LongerDurationDetected ==
    (/\ calls = 10
     /\ decay_factor = 98
     /\ last.op = "detect_anomaly"
     /\ last.hour = script[2].hour
     /\ last.duration = R(120))
        => last.ieee.deviation = "positive"

(***************************************************************************)
(* Claims about the entity registry                                        *)
(***************************************************************************)
\* similarity of the detected record to the i-th profile stored before the call
SimBefore(i) ==
    calculate_similarity(last.features,
        last.before.records[last.before.entities[i].profile.typical_features])

\* the i-th profile stored before the call was not expired and its
\* similarity strictly exceeded similarity_threshold
Exceeds(i) ==
    /\ ~is_expired(last.before.entities[i].profile, last.before.now, expiry_days)
    /\ SimGtNumber(SimBefore(i), similarity_threshold)

Exceeding == {i \in 1..Len(last.before.entities) : Exceeds(i)}

ExceedingAboveZero == {i \in Exceeding : SimGt(SimBefore(i), SimZero)}

\* the first inserted among the most similar profiles of the set c
FirstBest(c) ==
    CHOOSE i \in c : \A j \in c : /\ ~SimGt(SimBefore(j), SimBefore(i))
                                  /\ j < i => SimGt(SimBefore(i), SimBefore(j))

\* detect matched the first of the most similar profiles of c, and matched
\* nothing outside c
MatchesFirstBestOf(c) ==
    /\ c # {} => /\ ~last.result.is_new
                 /\ last.result.entity_id = last.before.entities[FirstBest(c)].key
    /\ ~last.result.is_new => c # {}

\* C10 as stated: detect matches the record to the first inserted of the
\* most similar non-expired profiles whose similarity strictly exceeds
\* similarity_threshold, and returns an existing id with is_new = false
\* whenever there is such a profile.
C10_MatchesBestAboveThreshold ==
    last.op = "detect_entity" => MatchesFirstBestOf(Exceeding)

\* C10 amended: detect matches the record to the first inserted of the most
\* similar non-expired profiles whose similarity strictly exceeds both
\* similarity_threshold and 0, and returns an existing id with
\* is_new = false whenever there is such a profile.
C10_MatchesBestAboveThresholdAndZero ==
    last.op = "detect_entity" => MatchesFirstBestOf(ExceedingAboveZero)

\* two profiles share the highest similarity and the first inserted is matched
C10_Witness ==
    /\ last.op = "detect_entity"
    /\ \E i, j \in ExceedingAboveZero :
          /\ i < j
          /\ SimBefore(i) = SimBefore(j)
          /\ FirstBest(ExceedingAboveZero) = i
          /\ last.result = [entity_id |-> last.before.entities[i].key, is_new |-> FALSE]

\* a later inserted profile is matched because it is the more similar one
C10_LaterProfileMatched ==
    /\ last.op = "detect_entity"
    /\ \E i, j \in ExceedingAboveZero :
          /\ i < j
          /\ last.result = [entity_id |-> last.before.entities[j].key, is_new |-> FALSE]

\* a profile whose similarity equals similarity_threshold is not matched
C10_EqualToThresholdNotMatched ==
    /\ last.op = "detect_entity"
    /\ last.result.is_new
    /\ \E i \in 1..Len(last.before.entities) :
          SimBefore(i).far_sq =
              RMul(RSq(MaxDistance), RSq(RSub(R(1), similarity_threshold)))


\* the feature object the i-th profile stored before the call referred to
FeaturesBefore(i) ==
    last.before.records[last.before.entities[i].profile.typical_features]

\* the feature object the i-th stored profile refers to
FeaturesOf(i) == records[entities[i].profile.typical_features]

\* every profile stored before the call is stored unchanged after it
StoredBeforeUnchanged ==
    \A i \in 1..Len(last.before.entities) :
        /\ entities[i] = last.before.entities[i]
        /\ FeaturesOf(i) = FeaturesBefore(i)

\* C11: when no non-expired profile has similarity above the threshold,
\* detect adds exactly one profile under a freshly generated id with
\* observation_count 1, confidence 0.1 and typical_features equal to the
\* record, returns (that id, true) and leaves every stored profile
\* unchanged; when a profile matches, the number of profiles is unchanged.
C11_NoMatchCreatesOneProfile ==
    last.op = "detect_entity" =>
        /\ Exceeding = {} =>
              /\ last.result.is_new
              /\ Len(entities) = Len(last.before.entities) + 1
              /\ StoredBeforeUnchanged
              /\ LET e == entities[Len(entities)]
                 IN  /\ e.key = last.result.entity_id
                     /\ e.profile.entity_id = last.result.entity_id
                     /\ last.result.entity_id = ids_generated
                     /\ \A i \in 1..Len(last.before.entities) :
                            last.before.entities[i].key < last.result.entity_id
                     /\ e.profile.observation_count = 1
                     /\ e.profile.confidence = RNorm(1, 10)
                     /\ records[e.profile.typical_features] = last.features
        /\ ~last.result.is_new => Len(entities) = Len(last.before.entities)

\* a record that matches none of two stored profiles has been detected
C11_Witness ==
    /\ last.op = "detect_entity"
    /\ Len(last.before.entities) = 2
    /\ Exceeding = {}
    /\ last.result.is_new
    /\ Len(entities) = 3


\* two different feature records have been passed to detect one after the other
TwoRecordsDetected ==
    /\ last.op = "detect_entity"
    /\ last.prev.op = "detect_entity"
    /\ last.prev.ref # last.ref

\* the similarity of the two records, each as it was when passed
MutualSimilarity == calculate_similarity(last.prev.features, last.features)

\* C12 as stated: two feature records whose mutual similarity is below
\* similarity_threshold receive two distinct ids when passed to detect one
\* after the other, in any registry state.
C12_DissimilarRecordsDistinctIds ==
    (TwoRecordsDetected /\ SimLtNumber(MutualSimilarity, similarity_threshold))
        => last.prev.result.entity_id # last.result.entity_id

\* C12 amended: two feature records whose mutual similarity is below
\* similarity_threshold receive two distinct ids when passed to detect one
\* after the other and the first of them is detected as a new entity.
C12_DissimilarAfterNewDistinctIds ==
    (/\ TwoRecordsDetected
     /\ SimLtNumber(MutualSimilarity, similarity_threshold)
     /\ last.prev.result.is_new)
        => last.prev.result.entity_id # last.result.entity_id

\* the first record created a profile in a registry that held another one,
\* and the second, dissimilar to the first, matched that other profile
C12_Witness ==
    /\ TwoRecordsDetected
    /\ SimLtNumber(MutualSimilarity, similarity_threshold)
    /\ last.prev.result.is_new
    /\ ~last.result.is_new
    /\ last.prev.result.entity_id # last.result.entity_id


\* for a detect_entity call c (the last one or the one before it): the
\* similarity of its record to the i-th profile stored before the call
SimAt(c, i) ==
    calculate_similarity(c.features,
        c.before.records[c.before.entities[i].profile.typical_features])

\* that profile was not expired and its similarity strictly exceeded the threshold
ExceedsAt(c, i) ==
    /\ ~is_expired(c.before.entities[i].profile, c.before.now, expiry_days)
    /\ SimGtNumber(SimAt(c, i), similarity_threshold)

\* that profile exceeded the threshold and 0, and no other such profile was
\* more similar, or equally similar and inserted earlier
IsFirstBestAt(c, i) ==
    /\ ExceedsAt(c, i)
    /\ SimGt(SimAt(c, i), SimZero)
    /\ \A j \in 1..Len(c.before.entities) :
          (j # i /\ ExceedsAt(c, j)) =>
              /\ ~SimGt(SimAt(c, j), SimAt(c, i))
              /\ j < i => SimGt(SimAt(c, i), SimAt(c, j))

\* the i-th profile before the first call is the j-th before the second
SameProfile(i, j) ==
    /\ i \in 1..Len(last.prev.before.entities)
    /\ j \in 1..Len(last.before.entities)
    /\ last.prev.before.entities[i].key = last.before.entities[j].key

\* C13 as stated: two feature records that each have similarity above
\* similarity_threshold against the same non-expired profile resolve to the
\* same id when passed to detect one after the other, in any registry state.
C13_SameProfileSameId ==
    TwoRecordsDetected =>
        \A i \in 1..Len(last.prev.before.entities), j \in 1..Len(last.before.entities) :
            (SameProfile(i, j) /\ ExceedsAt(last.prev, i) /\ ExceedsAt(last, j))
                => last.prev.result.entity_id = last.result.entity_id

\* C13 amended: two feature records resolve to the id of the same
\* non-expired profile when, for each of them at the time it is passed,
\* the profile's similarity exceeds similarity_threshold and 0 and no other
\* non-expired profile is more similar, or equally similar and inserted
\* earlier.
C13_SameBestProfileSameId ==
    TwoRecordsDetected =>
        \A i \in 1..Len(last.prev.before.entities), j \in 1..Len(last.before.entities) :
            (SameProfile(i, j) /\ IsFirstBestAt(last.prev, i) /\ IsFirstBestAt(last, j))
                => /\ last.prev.result.entity_id = last.before.entities[j].key
                   /\ last.result.entity_id = last.before.entities[j].key
                   /\ ~last.prev.result.is_new
                   /\ ~last.result.is_new

\* with two profiles stored, two different records have matched the second
\* one, which the first match had updated
C13_Witness ==
    /\ TwoRecordsDetected
    /\ Len(last.prev.before.entities) = 2
    /\ SameProfile(2, 2)
    /\ IsFirstBestAt(last.prev, 2)
    /\ IsFirstBestAt(last, 2)
    /\ last.prev.features # last.features
    /\ last.before.records[last.before.entities[2].profile.typical_features]
          # last.prev.before.records[last.before.entities[2].profile.typical_features]
    /\ last.result = [entity_id |-> last.before.entities[2].key, is_new |-> FALSE]


\* min(1.0, n / 10)
MinOneTenth(n) == IF RLt(RNorm(n, 10), R(1)) THEN RNorm(n, 10) ELSE R(1)

Keys(es) == {es[i].key : i \in 1..Len(es)}

\* the profile stored in es under the key id
ProfileOf(es, id) == es[CHOOSE i \in 1..Len(es) : es[i].key = id].profile

\* the step is a detect_entity call that matched the profile id
MatchedBy(id) ==
    /\ calls' = calls + 1
    /\ last'.op = "detect_entity"
    /\ last'.result = [entity_id |-> id, is_new |-> FALSE]

\* C14: every stored profile has confidence = min(1.0, observation_count / 10)
\* and observation_count >= 1; the observation_count of a stored profile
\* never decreases and grows by exactly 1 on each detect that matches it.
C14_ConfidenceFollowsCount ==
    /\ [](\A i \in 1..Len(entities) :
             /\ entities[i].profile.confidence =
                    MinOneTenth(entities[i].profile.observation_count)
             /\ entities[i].profile.observation_count >= 1)
    /\ [][\A id \in Keys(entities) \cap Keys(entities') :
             /\ ProfileOf(entities', id).observation_count
                    >= ProfileOf(entities, id).observation_count
             /\ MatchedBy(id) =>
                    ProfileOf(entities', id).observation_count
                        = ProfileOf(entities, id).observation_count + 1]_vars

\* a profile observed more than ten times, next to an expired one
C14_Witness ==
    /\ Len(entities) = 2
    /\ is_expired(entities[1].profile, now, expiry_days)
    /\ \E i \in 1..Len(entities) :
          /\ entities[i].profile.observation_count > 10
          /\ entities[i].profile.confidence = R(1)
    /\ last.op = "detect_entity"
    /\ ~last.result.is_new


\* C15 as stated: after n detect calls that returned an entity's id with
\* is_new = false, the entity's confidence equals min(1.0, n / 10).
C15_ConfidenceAfterMatches ==
    \A i \in 1..Len(entities) :
        matched[entities[i].key] >= 1 =>
            entities[i].profile.confidence = MinOneTenth(matched[entities[i].key])

\* C15 amended: after n detect calls that returned an entity's id with
\* is_new = false, the entity's confidence equals min(1.0, (n + 1) / 10),
\* the detect call that created the profile counting as an observation;
\* the confidence never decreases as n grows.
C15_ConfidenceAfterCreationAndMatches ==
    /\ [](\A i \in 1..Len(entities) :
             entities[i].profile.confidence
                 = MinOneTenth(matched[entities[i].key] + 1))
    /\ [][\A id \in Keys(entities) \cap Keys(entities') :
             /\ matched'[id] >= matched[id]
             /\ RLe(ProfileOf(entities, id).confidence,
                    ProfileOf(entities', id).confidence)]_vars

\* nine matched observations after the creating one: the confidence has
\* just reached 1.0
C15_Witness ==
    /\ last.op = "detect_entity"
    /\ ~last.result.is_new
    /\ matched[last.result.entity_id] = 9
    /\ ProfileOf(entities, last.result.entity_id).confidence = R(1)
    /\ ProfileOf(last.before.entities, last.result.entity_id).confidence = RNorm(9, 10)


\* C16: a profile is expired exactly when the whole number of days elapsed
\* since last_seen is strictly greater than expiry_days; with
\* expiry_days = 30, a profile last seen 30 days, or 30 days and 23 hours,
\* ago is not expired and one last seen 31 days ago is.
C16_ExpiredAfterWholeDays ==
    last.op = "is_expired" =>
        /\ last.result <=> last.elapsed >= (expiry_days + 1) * 24
        /\ (expiry_days = 30 /\ last.elapsed = 30 * 24) => ~last.result
        /\ (expiry_days = 30 /\ last.elapsed = 30 * 24 + 23) => ~last.result
        /\ (expiry_days = 30 /\ last.elapsed = 31 * 24) => last.result

\* thirty days and twenty-three hours after last_seen, not expired
C16_Witness ==
    /\ last.op = "is_expired"
    /\ expiry_days = 30
    /\ last.elapsed = 30 * 24 + 23
    /\ ~last.result


\* the entries of es that are expired at the hour clock
ExpiredIn(es, clock) ==
    {i \in 1..Len(es) : is_expired(es[i].profile, clock, expiry_days)}

\* C17: cleanup_expired removes every expired profile and no other, returns
\* the number of profiles it removed and leaves the remaining profiles
\* unchanged; a second cleanup_expired at the same clock value removes
\* nothing and returns 0.
C17_CleanupRemovesExactlyExpired ==
    /\ [](last.op = "cleanup_expired_entities" =>
            LET b == last.before
            IN  /\ Keys(entities) =
                       {b.entities[i].key : i \in (1..Len(b.entities)) \ ExpiredIn(b.entities, b.now)}
                /\ Len(entities) = Len(b.entities) - Cardinality(ExpiredIn(b.entities, b.now))
                /\ last.result = Cardinality(ExpiredIn(b.entities, b.now))
                /\ \A i \in 1..Len(entities) :
                       /\ \E j \in 1..Len(b.entities) : entities[i] = b.entities[j]
                       /\ FeaturesOf(i) = b.records[entities[i].profile.typical_features]
                /\ \A i, j \in 1..Len(entities) :
                       i < j => entities[i].key < entities[j].key)
    /\ [][(/\ last.op = "cleanup_expired_entities"
           /\ last'.op = "cleanup_expired_entities"
           /\ last.before.now = now
           /\ now' = now)
             => /\ last'.result = 0
                /\ entities' = entities
                /\ records' = records]_vars

\* a cleanup that removed one expired profile and kept a profile that was not
C17_Witness ==
    /\ last.op = "cleanup_expired_entities"
    /\ Len(last.before.entities) = 2
    /\ last.result = 1
    /\ Len(entities) = 1
    /\ ~is_expired(entities[1].profile, now, expiry_days)


\* C18: get_profile returns absent for an id that was never created, that
\* cleanup_expired removed, or whose profile is already expired, and
\* returns the profile only for a stored, non-expired id.
C18_LookupHidesExpired ==
    last.op = "get_entity_info" =>
        IF /\ last.entity_id \in Keys(entities)
           /\ ~is_expired(ProfileOf(entities, last.entity_id), last.now, expiry_days)
        THEN last.result = ProfileOf(entities, last.entity_id)
        ELSE last.result = NoProfile


\* the square of the weighted Euclidean distance of two records
WeightedDistanceSq(a, b) ==
    LET sq(x) == RMul(x, x)
        code(f) == <<TimeEncoding(f.activity_time), ZoneEncoding(f.interaction_zone),
                     PatternEncoding(f.movement_pattern)>>
    IN  RAdd(RAdd(RMul(R(4), sq(RSub(a.movement_speed, b.movement_speed))),
                  RMul(R(4), sq(RSub(a.height_estimate, b.height_estimate)))),
             R((code(a)[1] - code(b)[1]) * (code(a)[1] - code(b)[1])
               + (code(a)[2] - code(b)[2]) * (code(a)[2] - code(b)[2])
               + (code(a)[3] - code(b)[3]) * (code(a)[3] - code(b)[3])))

\* C19: similarity(a, a) = 1.0, similarity(a, b) = similarity(b, a) and
\* 0 <= similarity(a, b) <= 1, where similarity = max(0, 1 - distance / 10)
\* and distance is the Euclidean norm of the difference of the encoded
\* vectors weighted by [2, 2, 1, 1, 1].
C19_SimilarityProperties ==
    last.op = "calculate_similarity" =>
        /\ last.aa.far_sq = R(0)
        /\ last.ab = last.ba
        /\ RLe(R(0), last.ab.far_sq) /\ RLe(last.ab.far_sq, R(100))
        /\ last.ab.far_sq =
              IF RLt(WeightedDistanceSq(last.a, last.b), R(100))
              THEN WeightedDistanceSq(last.a, last.b) ELSE R(100)

\* two different records with a similarity strictly between 0 and 1
C19_Witness ==
    /\ last.op = "calculate_similarity"
    /\ last.a # last.b
    /\ last.a.activity_time # last.b.activity_time
    /\ RLt(R(0), last.ab.far_sq)
    /\ RLt(last.ab.far_sq, R(100))
    /\ last.ab = last.ba

\* two records more than 10 apart: the similarity is cut off at 0
C19_CutOffReached ==
    /\ last.op = "calculate_similarity"
    /\ RLt(R(100), WeightedDistanceSq(last.a, last.b))
    /\ last.ab = SimZero


(***************************************************************************)
(* Two threads calling observe_activity on one PatternMemory.  The class   *)
(* holds no lock, so the calls interleave.  A thread is only switched out  *)
(* where every CPython build can switch it: on a call made by the method   *)
(* (the ActivityPattern constructor, the three helper methods) and on the  *)
(* back-edge of the loop of _apply_decay.  An ActivityPattern is an        *)
(* object: a thread keeps the reference it read from self.patterns even    *)
(* when the entry is replaced afterwards.                                  *)
(***************************************************************************)
Threads == {1, 2}

ThreadInputs == {<<"breakfast", SampleA>>, <<"reading", SampleC>>}

NoPattern == 0

\* self.patterns with every reference followed
PatternsOf(obj) == [t \in DOMAIN obj.ref |-> obj.store[obj.ref[t]]]

Thread(activity_type, s) ==
    [pc |-> "lookup", activity_type |-> activity_type, sample |-> s,
     pattern |-> NoPattern, position |-> 0, size |-> 0]

\* if activity_type not in self.patterns: ... the constructor is called;
\* else pattern = self.patterns[activity_type]
ThreadLookup(t) ==
    LET th == threads[t] IN
    /\ th.pc = "lookup"
    /\ threads' = [threads EXCEPT ![t] =
           IF th.activity_type \in DOMAIN objects.ref
           THEN [th EXCEPT !.pc = "temporal", !.pattern = objects.ref[th.activity_type]]
           ELSE [th EXCEPT !.pc = "create"]]
    /\ UNCHANGED <<objects, patterns, total_observations, calls>>

\* self.patterns[activity_type] = ActivityPattern(...), once the constructor
\* has returned; pattern = self.patterns[activity_type]
ThreadCreate(t) ==
    LET th    == threads[t]
        fresh == Len(objects.store) + 1
        known == th.activity_type \in DOMAIN objects.ref
    IN
    /\ th.pc = "create"
    /\ objects' =
           [store |-> Append(objects.store, NewPattern),
            ref   |-> [a \in (DOMAIN objects.ref) \cup {th.activity_type} |->
                          IF a = th.activity_type THEN fresh ELSE objects.ref[a]],
            order |-> IF known THEN objects.order
                      ELSE Append(objects.order, th.activity_type)]
    /\ threads' = [threads EXCEPT ![t] = [th EXCEPT !.pc = "temporal", !.pattern = fresh]]
    /\ patterns' = PatternsOf(objects')
    /\ UNCHANGED <<total_observations, calls>>

\* self._update_temporal_pattern(pattern.temporal, hour, duration_minutes)
ThreadTemporal(t) ==
    LET th == threads[t] IN
    /\ th.pc = "temporal"
    /\ objects' = [objects EXCEPT !.store[th.pattern] =
                      update_temporal_pattern(@, th.sample.hour, th.sample.duration)]
    /\ threads' = [threads EXCEPT ![t] = [th EXCEPT !.pc = "spatial"]]
    /\ patterns' = PatternsOf(objects')
    /\ UNCHANGED <<total_observations, calls>>

\* self._update_spatial_pattern(pattern.spatial, zone, movement_speed)
ThreadSpatial(t) ==
    LET th == threads[t] IN
    /\ th.pc = "spatial"
    /\ objects' = [objects EXCEPT !.store[th.pattern] =
                      update_spatial_pattern(@, th.sample.zone, th.sample.speed)]
    /\ threads' = [threads EXCEPT ![t] = [th EXCEPT !.pc = "decay"]]
    /\ patterns' = PatternsOf(objects')
    /\ UNCHANGED <<total_observations, calls>>

\* one turn of the loop of _apply_decay: the iterator over
\* self.patterns.values() is made on the first turn; every next() raises
\* RuntimeError when the dictionary has changed size since; after the last
\* pattern the method returns and self.total_observations += 1 runs
ThreadDecay(t) ==
    LET th       == threads[t]
        size     == IF th.position = 0 THEN Len(objects.order) ELSE th.size
        position == th.position + 1
    IN
    /\ th.pc = "decay"
    /\ IF Len(objects.order) # size
       THEN /\ threads' = [threads EXCEPT ![t] = [th EXCEPT !.pc = "raised"]]
            /\ UNCHANGED <<objects, patterns, total_observations, calls>>
       ELSE IF position > size
       THEN /\ threads' = [threads EXCEPT ![t] = [th EXCEPT !.pc = "done"]]
            /\ total_observations' = TotalAfterObserve(total_observations)
            /\ calls' = calls + 1
            /\ UNCHANGED <<objects, patterns>>
       ELSE /\ objects' = [objects EXCEPT !.store[objects.ref[objects.order[position]]] =
                              DecayPattern(@, decay_factor)]
            /\ threads' = [threads EXCEPT ![t] =
                              [th EXCEPT !.position = position, !.size = size]]
            /\ patterns' = PatternsOf(objects')
            /\ UNCHANGED <<total_observations, calls>>

ThreadStep(t) ==
    \/ ThreadLookup(t)
    \/ ThreadCreate(t)
    \/ ThreadTemporal(t)
    \/ ThreadSpatial(t)
    \/ ThreadDecay(t)

InitThreads ==
    /\ patterns = <<>>
    /\ decay_factor \in DecayFactors
    /\ total_observations = 0
    /\ last = NoCall
    /\ calls = 0
    /\ hist = <<>>
    /\ script = NoScript
    /\ ieee = <<>>
    /\ threads \in {[t \in Threads |-> Thread(in[t][1], in[t][2])] :
                       in \in [Threads -> ThreadInputs]}
    /\ objects = NoObjects
    /\ monitor = NoMonitor
    /\ RegistryIdle

NextThreads ==
    /\ \E t \in Threads : ThreadStep(t)
    /\ UNCHANGED <<decay_factor, last, hist, script, ieee, monitor>>
    /\ UNCHANGED regvars

SpecThreads == InitThreads /\ [][NextThreads]_vars

(***************************************************************************)
(* C20                                                                     *)
(***************************************************************************)
\* the orders in which the calls of the threads can be made one after another
Orders ==
    {o \in [1..Cardinality(Threads) -> Threads] : \A i, j \in DOMAIN o : o[i] = o[j] => i = j}

\* self.patterns after the calls of the threads made one after another
RECURSIVE PatternsAfter(_, _)
PatternsAfter(o, n) ==
    IF n = 0 THEN <<>>
    ELSE observe_activity(PatternsAfter(o, n - 1), decay_factor,
                          threads[o[n]].activity_type, threads[o[n]].sample)

AllReturned == \A t \in Threads : threads[t].pc \in {"done", "raised"}

\* C20: once all concurrent observe_activity calls on one PatternMemory have
\* ended, none has raised, the patterns are those some sequential order of
\* the calls leaves (every observation_count decayed once per call) and
\* total_observations is the number of calls
C20_ObserveCallsSerialised ==
    (threads # NoThreads /\ AllReturned)
        => /\ \A t \in Threads : threads[t].pc = "done"
           /\ total_observations = Cardinality(Threads)
           /\ \E o \in Orders : patterns = PatternsAfter(o, Cardinality(Threads))

\* two calls for the same new activity type have both returned, and the
\* stored pattern holds one observation only
C20_ObservationLost ==
    /\ threads # NoThreads
    /\ \A t \in Threads : threads[t].pc = "done"
    /\ total_observations = Cardinality(Threads)
    /\ \E a \in DOMAIN patterns :
          /\ \A t \in Threads : threads[t].activity_type = a
          /\ patterns[a].observation_count = DecMulPct(DecOne, decay_factor)

\* a call has ended in the RuntimeError of a dictionary that changed size
\* while _apply_decay was iterating over it
C20_DecayRaised ==
    /\ threads # NoThreads
    /\ \E t \in Threads : threads[t].pc = "raised"

\* the calls did run one after the other, and the claim's state is reached
C20_SequentialRun ==
    /\ threads # NoThreads
    /\ \A t \in Threads : threads[t].pc = "done"
    /\ total_observations = Cardinality(Threads)
    /\ \E o \in Orders : patterns = PatternsAfter(o, Cardinality(Threads))


(***************************************************************************)
(* C21                                                                     *)
(***************************************************************************)
\* C21: a feature record a caller has passed to detect_entity keeps its
\* field values through every later call on the registry
C21_RecordsKeepTheirValues ==
    [][\A i \in 1..Len(records) : records'[i] = records[i]]_vars

\* a detect_entity call has matched a profile and the record that created
\* the profile, still held by its caller, no longer has the speed it had
C21_CallerRecordChanged ==
    /\ last.op = "detect_entity"
    /\ ~last.result.is_new
    /\ \E i \in 1..Len(last.before.records) :
          records[i].movement_speed # last.before.records[i].movement_speed


(***************************************************************************)
(* EldercareMonitor (examples/eldercare_fall_detection.py).  A datetime is *)
(* the number of minutes since midnight of the day the monitor was         *)
(* constructed; intensities and durations are exact rationals.             *)
(***************************************************************************)
MaxEvents == 3

MinutesPerHour == 60

\* datetime.hour
HourOf(t) == (t \div MinutesPerHour) % HoursPerDay

NoZone == "None"

NoAlert == [alert |-> FALSE, alert_type |-> "None", message |-> "", confidence |-> R(0)]

FallIntensity == R(8)

FallDuration == RNorm(1, 2)

FallConfidence == RNorm(17, 20)

InactivityConfidenceCap == RNorm(19, 20)

\* mutation: an impact of exactly the limit intensity counts as a fall
IsSuddenImpactAtLimit(event) ==
    RLe(FallIntensity, event.intensity) /\ RLt(event.duration, FallDuration)

\* event.intensity > 8.0 and event.duration < 0.5
IsSuddenImpact(event) ==
    RLt(FallIntensity, event.intensity) /\ RLt(event.duration, FallDuration)

\* EldercareMonitor.detect_entity: the id is assigned on the first call
monitor_detect_entity(m) == IF m.entity_id = NoId THEN [m EXCEPT !.entity_id = 1] ELSE m

_handle_pressure_event(m, event) ==
    LET fall == IsSuddenImpact(event)
    IN  [monitor  |-> [m EXCEPT !.fall_detected = IF fall THEN TRUE ELSE @,
                                !.last_movement_time = event.timestamp,
                                !.current_zone = event.zone],
         response |-> IF fall
                      THEN [alert |-> TRUE, alert_type |-> "POTENTIAL_FALL",
                            message |-> "Unusual pressure pattern detected. Checking on resident.",
                            confidence |-> FallConfidence]
                      ELSE NoAlert]

_handle_movement_event(m, event) ==
    LET hour == HourOf(event.timestamp)
        seen == \E i \in 1..Len(m.typical_active_hours) : m.typical_active_hours[i] = hour
    IN  [monitor  |-> [m EXCEPT !.last_movement_time = event.timestamp,
                                !.current_zone = event.zone,
                                !.activity_count_today = @ + 1,
                                !.typical_active_hours = IF seen THEN @ ELSE Append(@, hour)],
         response |-> NoAlert]

_handle_thermal_event(m, event) ==
    [monitor  |-> [m EXCEPT !.last_movement_time = event.timestamp,
                            !.current_zone = event.zone],
     response |-> NoAlert]

process_sensor_event(m, event) ==
    LET detected == monitor_detect_entity(m)
    IN  IF event.event_type = "pressure" THEN _handle_pressure_event(detected, event)
        ELSE IF event.event_type = "movement" THEN _handle_movement_event(detected, event)
        ELSE IF event.event_type = "thermal" THEN _handle_thermal_event(detected, event)
        ELSE [monitor |-> detected, response |-> NoAlert]

\* mutation: half an hour without movement already raises the alert
IsLongInactivityAtLimit(inactivity, threshold) == inactivity >= threshold

\* inactivity > self.inactivity_threshold_minutes
IsLongInactivity(inactivity, threshold) == inactivity > threshold

check_inactivity(m, current_time) ==
    LET inactivity          == current_time - m.last_movement_time
        current_hour        == HourOf(current_time)
        is_typically_active ==
            \E i \in 1..Len(m.typical_active_hours) : m.typical_active_hours[i] = current_hour
        share               == RNorm(inactivity, MinutesPerHour)
    IN  IF IsLongInactivity(inactivity, m.inactivity_threshold_minutes) /\ is_typically_active
        THEN [alert |-> TRUE, alert_type |-> "UNUSUAL_INACTIVITY",
              message |-> inactivity,
              confidence |-> IF RLt(share, InactivityConfidenceCap) THEN share
                             ELSE InactivityConfidenceCap]
        ELSE NoAlert

\* the monitor was constructed at 09:00
ConstructedAt == 540

NewMonitor ==
    [entity_id |-> NoId, last_movement_time |-> ConstructedAt, current_zone |-> NoZone,
     activity_count_today |-> 0, fall_detected |-> FALSE, typical_active_hours |-> <<>>,
     inactivity_threshold_minutes |-> 30]

\* 09:00, 09:30, 09:31, 10:35 and 23:00
EventTimes == {540, 570, 571, 635, 1380}

EventZones == {"kitchen", "bathroom"}

\* <<intensity, duration>> of the pressure events
PressureShapes ==
    {<<RNorm(19, 2), RNorm(1, 5)>>, <<R(8), RNorm(1, 5)>>, <<RNorm(19, 2), RNorm(1, 2)>>,
     <<RNorm(81, 10), R(0)>>, <<R(5), R(20)>>}

SensorEvent(timestamp, event_type, zone, intensity, duration) ==
    [timestamp |-> timestamp, event_type |-> event_type, zone |-> zone,
     intensity |-> intensity, duration |-> duration]

SensorEvents ==
    {SensorEvent(t, "pressure", z, p[1], p[2]) :
        t \in EventTimes, z \in EventZones, p \in PressureShapes}
    \cup {SensorEvent(t, k, z, RNorm(19, 2), R(0)) :
        t \in EventTimes, z \in EventZones, k \in {"movement", "thermal"}}
    \cup {SensorEvent(540, "door", "kitchen", R(1), R(0))}

ProcessSensorEvent ==
    /\ calls < MaxEvents
    /\ \E event \in SensorEvents :
         \E out \in {process_sensor_event(monitor, event)} :
            /\ monitor' = out.monitor
            /\ last' = [op |-> "process_sensor_event", event |-> event,
                        result |-> out.response, before |-> monitor]
    /\ calls' = calls + 1
    /\ UNCHANGED <<patterns, decay_factor, total_observations, hist, script, ieee, threads,
                   objects>>
    /\ UNCHANGED regvars

CheckInactivity ==
    /\ \E t \in EventTimes :
          last' = [op |-> "check_inactivity", current_time |-> t,
                   result |-> check_inactivity(monitor, t), before |-> monitor]
    /\ UNCHANGED <<monitor, calls>>
    /\ UNCHANGED <<patterns, decay_factor, total_observations, hist, script, ieee, threads,
                   objects>>
    /\ UNCHANGED regvars

InitMonitor ==
    /\ monitor = NewMonitor
    /\ last = NoCall
    /\ calls = 0
    /\ patterns = <<>>
    /\ decay_factor = 95
    /\ total_observations = 0
    /\ hist = <<>>
    /\ script = NoScript
    /\ ieee = <<>>
    /\ threads = NoThreads
    /\ objects = NoObjects
    /\ RegistryIdle

NextMonitor == ProcessSensorEvent \/ CheckInactivity

SpecMonitor == InitMonitor /\ [][NextMonitor]_vars


(***************************************************************************)
(* C22                                                                     *)
(***************************************************************************)
HandledEventTypes == {"pressure", "movement", "thermal"}

\* C22: process_sensor_event returns a POTENTIAL_FALL alert of confidence
\* 0.85 and sets fall_detected exactly when the event is a pressure event
\* with intensity > 8.0 and duration < 0.5; every other pressure, movement
\* or thermal event returns no alert and leaves fall_detected unchanged;
\* current_zone becomes the event's zone in all three cases
C22_FallAlertOnSuddenPressure ==
    last.op = "process_sensor_event" =>
        LET event == last.event
            fall  == /\ event.event_type = "pressure"
                     /\ RLt(R(8), event.intensity)
                     /\ RLt(event.duration, RNorm(1, 2))
        IN  /\ fall => /\ last.result.alert
                       /\ last.result.alert_type = "POTENTIAL_FALL"
                       /\ last.result.confidence = RNorm(17, 20)
                       /\ monitor.fall_detected
            /\ (~fall /\ event.event_type \in HandledEventTypes)
                   => /\ ~last.result.alert
                      /\ last.result = NoAlert
                      /\ monitor.fall_detected = last.before.fall_detected
            /\ event.event_type \in HandledEventTypes => monitor.current_zone = event.zone

\* a sudden impact has raised the fall alert on a monitor that had seen none
C22_Witness ==
    /\ last.op = "process_sensor_event"
    /\ last.event.event_type = "pressure"
    /\ last.result.alert
    /\ ~last.before.fall_detected
    /\ monitor.fall_detected
    /\ monitor.current_zone = last.event.zone

\* a pressure event of intensity exactly 8.0 has raised no alert
C22_LimitIntensityNoAlert ==
    /\ last.op = "process_sensor_event"
    /\ last.event.event_type = "pressure"
    /\ last.event.intensity = R(8)
    /\ RLt(last.event.duration, RNorm(1, 2))
    /\ ~last.result.alert
    /\ ~monitor.fall_detected

(***************************************************************************)
(* C23                                                                     *)
(***************************************************************************)
ActiveHours(m) == {m.typical_active_hours[i] : i \in 1..Len(m.typical_active_hours)}

\* C23: check_inactivity(t) returns an UNUSUAL_INACTIVITY alert exactly when
\* more than 30 minutes lie between last_movement_time and t and the hour
\* of t is in typical_active_hours, no alert otherwise, and changes no
\* field of the monitor
C23_InactivityAlert ==
    last.op = "check_inactivity" =>
        LET due == /\ last.current_time - last.before.last_movement_time > 30
                   /\ HourOf(last.current_time) \in ActiveHours(last.before)
        IN  /\ last.result.alert <=> due
            /\ due => last.result.alert_type = "UNUSUAL_INACTIVITY"
            /\ ~due => last.result = NoAlert
            /\ monitor = last.before

\* 31 minutes after the last movement, in an hour learned as active, the
\* alert is raised
C23_Witness ==
    /\ last.op = "check_inactivity"
    /\ last.current_time - monitor.last_movement_time = 31
    /\ last.result.alert
    /\ last.result.alert_type = "UNUSUAL_INACTIVITY"

\* exactly 30 minutes after the last movement, in an active hour: no alert
C23_LimitNoAlert ==
    /\ last.op = "check_inactivity"
    /\ last.current_time - monitor.last_movement_time = 30
    /\ HourOf(last.current_time) \in ActiveHours(monitor)
    /\ ~last.result.alert

\* long inactivity in an hour that is not typically active: no alert
C23_InactiveHourNoAlert ==
    /\ last.op = "check_inactivity"
    /\ last.current_time - monitor.last_movement_time > 30
    /\ monitor.typical_active_hours # <<>>
    /\ ~last.result.alert


(***************************************************************************)
(* C24                                                                     *)
(***************************************************************************)
\* the observe_activity call this step makes, when it makes one
ObservesNow(t) ==
    /\ calls' = calls + 1
    /\ last'.op = "observe"
    /\ last'.activity_type = t

\* C24: only the first observation of an activity type sets
\* movement_speed_mean = speed and movement_speed_std = 0; every later one
\* applies mean' = 0.2*speed + 0.8*mean and
\* std' = sqrt(0.2*(speed - old_mean)^2 + 0.8*std^2)
C24_SpeedFollowsAccumulator ==
    [][\A t \in ActivityTypes :
          ObservesNow(t) =>
              LET speed == last'.sample.speed IN
              IF t \notin DOMAIN patterns
              THEN /\ patterns'[t].movement_speed_mean = speed
                   /\ patterns'[t].movement_speed_std = Zero
              ELSE /\ patterns'[t].movement_speed_mean =
                          RAdd(RMul(RNorm(1, 5), speed),
                               RMul(RNorm(4, 5), patterns[t].movement_speed_mean))
                   /\ patterns'[t].movement_speed_std =
                          Sqrt(RAdd(RMul(RNorm(1, 5),
                                         RSq(RSub(speed, patterns[t].movement_speed_mean))),
                                    RMul(RNorm(4, 5), patterns[t].movement_speed_std.sq)))]_vars


(***************************************************************************)
(* A pattern left untouched for many observe calls of another type, in     *)
(* binary64: observation_count shrinks with every decay pass until adding  *)
(* 1 to it gives exactly 1.0, while the count of the type observed again   *)
(* and again climbs towards decay_factor / (1 - decay_factor).  Only the   *)
(* temporal fields are followed; they are kept in ieee, with the           *)
(* observation_count next to the means.                                    *)
(***************************************************************************)
\* number of observe calls of the other activity type
MaxFade == 54

\* decay_factor values, in hundredths
FadeDecayFactors == {25, 50, 75, 95}

FloatOne == FOfRat(R(1))

\* temporal.observation_count == 1, on the binary64 count
IsFirstObservationFloat(count) == count = FloatOne

NewFloatPattern ==
    [ observation_count |-> FZero,
      hours_mean        |-> FOfRat(R(12)),
      hours_std_zero    |-> FALSE,
      duration_mean     |-> FZero,
      duration_std_zero |-> TRUE ]

\* _update_temporal_pattern in binary64
float_update_temporal(m, hour, duration) ==
    LET count == FAdd(m.observation_count, FloatOne)
        first == IsFirstObservationFloat(count)
    IN  [ observation_count |-> count,
          hours_mean        |-> IF first THEN hour ELSE FEmaMean(m.hours_mean, hour),
          hours_std_zero    |-> first \/ StdStaysZero(m.hours_std_zero, m.hours_mean, hour),
          duration_mean     |->
              IF first THEN duration ELSE FEmaMean(m.duration_mean, duration),
          duration_std_zero |->
              first \/ StdStaysZero(m.duration_std_zero, m.duration_mean, duration) ]

\* mutation: _apply_decay leaves observation_count as it is
float_apply_decay_keeps_count(ms, d) == ms

\* the observation_count line of _apply_decay in binary64
float_apply_decay(ms, d) ==
    [t \in DOMAIN ms |-> [ms[t] EXCEPT !.observation_count = FMul(@, FOfRat(Pct(d)))]]

\* observe_activity on the binary64 temporal fields
float_observe(ms, d, activity_type, s) ==
    LET old == IF activity_type \in DOMAIN ms THEN ms[activity_type] ELSE NewFloatPattern
    IN  float_apply_decay(
            [t \in (DOMAIN ms) \cup {activity_type} |->
                IF t = activity_type
                THEN float_update_temporal(old, FOfRat(s.hour), FOfRat(s.duration))
                ELSE ms[t]], d)

FadeStep(activity_type, s) ==
    /\ ieee' = float_observe(ieee, decay_factor, activity_type, s)
    /\ total_observations' = TotalAfterObserve(total_observations)
    /\ calls' = calls + 1
    /\ last' = [op |-> "observe", activity_type |-> activity_type, sample |-> s,
                raised |-> FALSE]
    /\ UNCHANGED <<patterns, decay_factor, hist, threads, objects, monitor>>
    /\ UNCHANGED regvars

\* the first observe_activity call, of "breakfast"; from now on the caller
\* repeats observations of "reading"
ObserveFirst ==
    /\ calls = 0
    /\ FadeStep("breakfast", SampleA)
    /\ script' = <<"reading", SampleC>>

\* whether the caller is still repeating observations of "reading"
OtherTypeRuns == script # NoScript

\* one more observe_activity call of "reading"
ObserveOther ==
    /\ OtherTypeRuns
    /\ calls <= MaxFade
    /\ FadeStep(script[1], script[2])
    /\ UNCHANGED script

\* "breakfast" observed again, at another hour and duration, as the last
\* observation of the run
ObserveAgain ==
    /\ OtherTypeRuns
    /\ FadeStep("breakfast", Sample12)
    /\ script' = NoScript

\* the binary64 value c is below the rational n/d (n >= 0, d > 0)
FloatLtRat(c, n, d) ==
    LET up == IF c[2] > 0 THEN c[2] ELSE 0
        dn == IF c[2] < 0 THEN -c[2] ELSE 0
    IN  BigCmp(BigMulSmall(BigShl(c[1], up), d), BigShl(BigOfInt(n), dn)) = -1

\* the binary64 value c is at most the rational n/d (n >= 0, d > 0)
FloatLeRat(c, n, d) ==
    LET up == IF c[2] > 0 THEN c[2] ELSE 0
        dn == IF c[2] < 0 THEN -c[2] ELSE 0
    IN  BigCmp(BigMulSmall(BigShl(c[1], up), d), BigShl(BigOfInt(n), dn)) # 1

\* not pattern or pattern.temporal.observation_count < 3, in binary64
float_insufficient_data(ms, activity_type) ==
    activity_type \notin DOMAIN ms \/ FloatLtRat(ms[activity_type].observation_count, 3, 1)

\* detect_anomaly in binary64: whether it returned for lack of data, and
\* whether the deviation it returned is 0.0 or positive
float_detect_anomaly(ms, activity_type, current_hour, current_duration) ==
    IF float_insufficient_data(ms, activity_type)
    THEN [insufficient |-> TRUE, is_anomaly |-> FALSE, deviation |-> "zero"]
    ELSE LET m == ms[activity_type]
             positive ==
                 \/ ZScorePositive(m.hours_std_zero, m.hours_mean, FOfRat(current_hour))
                 \/ ZScorePositive(m.duration_std_zero, m.duration_mean,
                                   FOfRat(current_duration))
         IN  [insufficient |-> FALSE,
              is_anomaly   |-> IF positive THEN "computed" ELSE FALSE,
              deviation    |-> IF positive THEN "positive" ELSE "zero"]

FadeQueries == {<<"breakfast", <<R(14), R(120)>>>>, <<"reading", <<R(14), R(120)>>>>}

DetectAnomalyFade ==
    /\ calls > 0
    /\ \E q \in FadeQueries :
          last' = [op |-> "detect_anomaly", activity_type |-> q[1],
                   hour |-> q[2][1], duration |-> q[2][2],
                   result |-> float_detect_anomaly(ieee, q[1], q[2][1], q[2][2])]
    /\ UNCHANGED <<patterns, decay_factor, total_observations, calls, hist, script, ieee,
                   threads, objects, monitor>>
    /\ UNCHANGED regvars

InitFade ==
    /\ patterns = <<>>
    /\ decay_factor \in FadeDecayFactors
    /\ total_observations = 0
    /\ last = NoCall
    /\ calls = 0
    /\ hist = <<>>
    /\ script = NoScript
    /\ ieee = <<>>
    /\ threads = NoThreads
    /\ objects = NoObjects
    /\ monitor = NoMonitor
    /\ RegistryIdle

NextFade == ObserveFirst \/ ObserveOther \/ ObserveAgain \/ DetectAnomalyFade

SpecFade == InitFade /\ [][NextFade]_vars

(***************************************************************************)
(* C25                                                                     *)
(***************************************************************************)
\* C25: the hour and duration statistics of an activity type are set from
\* the sample (mean = sample, std = 0) by the first observe call of that
\* type and by no later one: every later call, after any number of decay
\* passes, applies mean' = 0.2*sample + 0.8*mean and computes the standard
\* deviation from the difference to the old mean
C25_FirstSampleOnlyOnce ==
    [][\A t \in ActivityTypes :
          ObservesNow(t) =>
              LET hour     == FOfRat(last'.sample.hour)
                  duration == FOfRat(last'.sample.duration)
              IN  IF t \notin DOMAIN ieee
                  THEN /\ ieee'[t].hours_mean = hour
                       /\ ieee'[t].hours_std_zero
                       /\ ieee'[t].duration_mean = duration
                       /\ ieee'[t].duration_std_zero
                  ELSE /\ ieee'[t].hours_mean =
                              FAdd(FMul(FOfRat(RNorm(1, 5)), hour),
                                   FMul(FSub(FOfRat(R(1)), FOfRat(RNorm(1, 5))),
                                        ieee[t].hours_mean))
                       /\ ieee'[t].hours_std_zero =
                              (ieee[t].hours_std_zero /\ hour = ieee[t].hours_mean)
                       /\ ieee'[t].duration_mean =
                              FAdd(FMul(FOfRat(RNorm(1, 5)), duration),
                                   FMul(FSub(FOfRat(R(1)), FOfRat(RNorm(1, 5))),
                                        ieee[t].duration_mean))
                       /\ ieee'[t].duration_std_zero =
                              (ieee[t].duration_std_zero /\ duration = ieee[t].duration_mean)]_vars

\* "breakfast", observed before at 7.0, has been observed again at 12.0 and
\* its mean hour is the sample itself with a standard deviation of 0
C25_SetAnewAfterFading ==
    /\ calls > 2
    /\ last.op = "observe"
    /\ last.activity_type = "breakfast"
    /\ ieee["breakfast"].hours_mean = FOfRat(R(12))
    /\ ieee["breakfast"].hours_std_zero

\* "breakfast" has been observed again and the accumulator was applied
C25_AccumulatorApplied ==
    /\ calls > 2
    /\ last.op = "observe"
    /\ last.activity_type = "breakfast"
    /\ ieee["breakfast"].hours_mean = FOfRat(R(8))
    /\ ~ieee["breakfast"].hours_std_zero


(***************************************************************************)
(* C26                                                                     *)
(***************************************************************************)
\* the stored profiles that were expired when the last call was made
ExpiredBefore ==
    {i \in 1..Len(last.before.entities) :
        (last.before.now - last.before.entities[i].profile.last_seen) \div 24 > expiry_days}

\* C26: detect_entity never returns the id of an expired profile and never
\* updates one (its last_seen, observation_count and confidence stay as
\* they were), and when every stored profile is expired the record gets a
\* new id, even if it is identical to a profile's typical_features
C26_DetectSkipsExpired ==
    last.op = "detect_entity" =>
        /\ \A i \in ExpiredBefore :
              /\ last.result.entity_id # last.before.entities[i].key
              /\ entities[i] = last.before.entities[i]
        /\ ExpiredBefore = 1..Len(last.before.entities) => last.result.is_new

\* a record identical to the typical_features of an expired profile, still
\* stored, has received a new id
C26_Witness ==
    /\ last.op = "detect_entity"
    /\ last.result.is_new
    /\ \E i \in ExpiredBefore :
          /\ last.before.records[last.before.entities[i].profile.typical_features]
                 = last.features
          /\ entities[i] = last.before.entities[i]
          /\ last.result.entity_id # entities[i].key


(***************************************************************************)
(* One activity type observed again and again, long enough for its         *)
(* observation_count to pass 20                                            *)
(***************************************************************************)
MaxStable == 28

StableDecayFactors == {50, 95, 98, 99}

StableInputs == {<<"breakfast", Sample75>>}

ObserveOneType ==
    /\ calls < MaxStable
    /\ ObserveStep(script[1], script[2])
    /\ UNCHANGED <<script, ieee, threads, objects, monitor>>
    /\ UNCHANGED regvars

InitStable ==
    /\ patterns = <<>>
    /\ decay_factor \in StableDecayFactors
    /\ total_observations = 0
    /\ last = NoCall
    /\ calls = 0
    /\ hist = <<>>
    /\ script \in StableInputs
    /\ ieee = <<>>
    /\ threads = NoThreads
    /\ objects = NoObjects
    /\ monitor = NoMonitor
    /\ RegistryIdle

NextStable == ObserveOneType

SpecStable == InitStable /\ [][NextStable]_vars

(***************************************************************************)
(* C27                                                                     *)
(***************************************************************************)
\* f < g for two sequences of base-100 fractional digits without trailing zeros
RECURSIVE DigitsLt(_, _)
DigitsLt(f, g) ==
    IF g = <<>> THEN FALSE
    ELSE IF f = <<>> THEN TRUE
    ELSE IF Head(f) # Head(g) THEN Head(f) < Head(g)
    ELSE DigitsLt(Tail(f), Tail(g))

DecLt(x, y) == x[1] < y[1] \/ (x[1] = y[1] /\ DigitsLt(x[2], y[2]))

DecLe(x, y) == ~DecLt(y, x)

StabilityInUnitInterval ==
    \A t \in DOMAIN patterns :
        /\ DecLe(DecZero, patterns[t].pattern_stability)
        /\ DecLe(patterns[t].pattern_stability, DecOne)

\* C27: when one activity type is observed repeatedly, its
\* pattern_stability after m observe calls is strictly greater than after
\* n calls for every m > n >= 1, and it stays within [0, 1]
C27_StabilityStrictlyIncreases ==
    /\ []StabilityInUnitInterval
    /\ [][\A t \in DOMAIN patterns :
             ObservesNow(t) =>
                 DecLt(patterns[t].pattern_stability, patterns'[t].pattern_stability)]_vars

\* C27, amended: when one activity type is observed repeatedly, its
\* pattern_stability after m observe calls is at least that after n calls
\* for every m > n >= 1 (it stops growing once observation_count + 1
\* reaches 20), and it stays within [0, 1]
C27_StabilityNeverDecreases ==
    /\ []StabilityInUnitInterval
    /\ [][\A t \in DOMAIN patterns :
             ObservesNow(t) =>
                 DecLe(patterns[t].pattern_stability, patterns'[t].pattern_stability)]_vars

\* a type observed more than twenty times in a row whose stability has
\* reached the capped value, 1.0 times decay_factor
C27_Witness ==
    /\ last.op = "observe"
    /\ hist[last.activity_type].touches > 20
    /\ ~DecLtInt(patterns[last.activity_type].observation_count, 20)
    /\ patterns[last.activity_type].pattern_stability = DecOfPct(decay_factor)


(***************************************************************************)
(* C28                                                                     *)
(***************************************************************************)
\* the sum of the frequencies of the zones other than zone
OtherZones(freq, zone) == SumOver(freq, (DOMAIN freq) \ {zone})

InsufficientReturn == [insufficient |-> TRUE, is_anomaly |-> FALSE, deviation |-> "zero"]

\* the number of observe_activity calls of "reading" so far
ReadingObservations == IF OtherTypeRuns THEN calls - 1 ELSE calls - 2

C29_CountAtBound ==
    /\ decay_factor = 50
    /\ "reading" \in DOMAIN ieee
    /\ ieee["reading"].observation_count = FloatOne

\* with d = 0.95 the fourth observation leaves the insufficient-data case
C29_FourthObservationSuffices ==
    /\ decay_factor = 95
    /\ ReadingObservations = 4
    /\ last.op = "detect_anomaly"
    /\ last.activity_type = "reading"
    /\ ~last.result.insufficient


(***************************************************************************)
(* A registry whose entities age: the clock advances by days between the   *)
(* calls, so that a profile is updated after it was created and expires    *)
(* while a younger one stays.                                              *)
(***************************************************************************)
MaxAgeDetect == 3
MaxAgeHours == 1008

\* a record, a record that matches it (similarity 0.95), a record far from
\* both (similarity 0)
AgingFeatureInputs ==
    { Features(R(1), "morning"),
      Features(RNorm(5, 4), "morning"),
      Features(R(6), "morning") }

\* 10 days, 21 days
AgingAdvanceHours == {240, 504}

DetectEntityAging ==
    /\ calls < MaxAgeDetect
    /\ \E f \in AgingFeatureInputs : DetectStep(Append(records, f), Len(records) + 1)

\* days pass between two calls
AdvanceDays ==
    /\ \E h \in AgingAdvanceHours : now + h <= MaxAgeHours /\ now' = now + h
    /\ UNCHANGED <<entities, records, similarity_threshold, expiry_days, ids_generated,
                   matched, last, calls>>
    /\ UNCHANGED memvars

InitAging ==
    /\ entities = <<>>
    /\ records = <<>>
    /\ similarity_threshold \in LongSimilarityThresholds
    /\ expiry_days \in ExpiryDays
    /\ now = 0
    /\ ids_generated = 0
    /\ matched = <<>>
    /\ last = NoCall
    /\ calls = 0
    /\ MemoryIdle

NextAging == DetectEntityAging \/ CleanupExpiredEntities \/ AdvanceDays

SpecAging == InitAging /\ [][NextAging]_vars

(***************************************************************************)
(* C30: how the membership of the registry changes                         *)
(***************************************************************************)

\* the keys of the registry es
KeysOf(es) == {es[i].key : i \in 1..Len(es)}

\* the profile stored in es under key
ProfileAt(es, key) == es[CHOOSE i \in 1..Len(es) : es[i].key = key].profile

\* every profile is stored under its own entity_id, once
StoredUnderOwnId ==
    /\ \A i \in 1..Len(entities) : entities[i].key = entities[i].profile.entity_id
    /\ \A i, j \in 1..Len(entities) : entities[i].key = entities[j].key => i = j

\* a detect_entity call keeps every key and adds at most one; any other step
\* adds none, and removes some only if it is cleanup_expired_entities; a
\* profile that stays keeps its entity_id and its first_observed
MembershipStep ==
    /\ calls' # calls =>
          /\ KeysOf(entities) \subseteq KeysOf(entities')
          /\ Cardinality(KeysOf(entities') \ KeysOf(entities)) <= 1
    /\ calls' = calls =>
          /\ KeysOf(entities') \subseteq KeysOf(entities)
          /\ KeysOf(entities') # KeysOf(entities) =>
                last'.op = "cleanup_expired_entities"
    /\ \A key \in KeysOf(entities) \cap KeysOf(entities') :
          /\ ProfileAt(entities', key).entity_id = ProfileAt(entities, key).entity_id
          /\ ProfileAt(entities', key).first_observed =
                 ProfileAt(entities, key).first_observed

\* C30: membership of the registry changes only by detect_entity adding at
\* most one profile (never removing or re-keying one) and by
\* cleanup_expired_entities removing profiles; every profile is stored
\* under a key equal to its entity_id, and neither entity_id nor
\* first_observed of a stored profile ever changes.
C30_MembershipChangesInTwoWays == [](StoredUnderOwnId) /\ [][MembershipStep]_vars

\* cleanup_expired_entities has removed a profile and left one that
\* detect_entity created and later updated
C30_Witness ==
    /\ last.op = "cleanup_expired_entities"
    /\ last.result >= 1
    /\ \E i \in 1..Len(entities) :
          /\ entities[i].profile.observation_count >= 2
          /\ entities[i].profile.first_observed < entities[i].profile.last_seen
          /\ entities[i].key \in KeysOf(last.before.entities)

====
